---- MODULE Spec2Model ----
(***************************************************************************)
(* Model of the AI code-generation core of website-builder-backend:        *)
(*   - AIKnowledgeBase  (src/services/aiKnowledgeBase.js)                  *)
(*   - AIOrchestrator   (src/services/aiOrchestrator.js)                   *)
(*                                                                         *)
(* Representation choices.                                                 *)
(*  * A text (description, code, prompt, backend response) is a sequence   *)
(*    of tokens.  A token is a string; "\n" is a line break, "FENCE" the   *)
(*    three backquotes of a markdown code fence, "//" a comment marker.    *)
(*    Tokens on one line are separated by blanks.                          *)
(*  * JavaScript's undefined is the string "undefined", which is also what *)
(*    a template literal prints for it.  A missing or empty text is <<>>.  *)
(*  * Numbers the code holds as doubles are held exactly: an embedding is  *)
(*    the vector num[i]/sqrt(den2), a similarity is sqrt(n/d), a success   *)
(*    rate is n/d.  Rounding of the double arithmetic is not modelled.     *)
(***************************************************************************)
EXTENDS Integers, Sequences, FiniteSets, TLC

NoValue == "undefined"

Truthy(v) == v # NoValue /\ v # ""

Min(a, b) == IF a <= b THEN a ELSE b

RECURSIVE GCD(_, _)
GCD(a, b) == IF b = 0 THEN a ELSE GCD(b, a % b)

RECURSIVE SumSeq(_)
SumSeq(s) == IF s = <<>> THEN 0 ELSE Head(s) + SumSeq(Tail(s))

RECURSIVE Flatten(_)
Flatten(ss) == IF ss = <<>> THEN <<>> ELSE Head(ss) \o Flatten(Tail(ss))

(***************************************************************************)
(* AIKnowledgeBase.generateEmbedding                                       *)
(***************************************************************************)

\* The fixed vocabulary of generateEmbedding.
vocabulary ==
  << "react", "component", "function", "api", "service", "route",
     "express", "database", "frontend", "backend", "auth", "user",
     "data", "fetch", "state", "props", "hook", "context", "store",
     "form", "validation", "error", "loading", "success" >>

\* text.toLowerCase().split(/\W+/) of the tokens that are not one lowercase
\* word.  A token that is not listed is one word; the synthesized default
\* paths are not listed, none of their words is a vocabulary term.
TokenWords ==
  [ t \in { "FENCE", "\n", "//", ":", "-", "File:", "Path:", "full-project",
            "src/Foo.jsx", "React" } |->
      CASE t = "File:"        -> << "file" >>
        [] t = "Path:"        -> << "path" >>
        [] t = "full-project" -> << "full", "project" >>
        [] t = "src/Foo.jsx"  -> << "src", "foo", "jsx" >>
        [] t = "React"        -> << "react" >>
        [] OTHER              -> << >> ]

Words(tok) == IF tok \in DOMAIN TokenWords THEN TokenWords[tok] ELSE << tok >>

\* words = text.toLowerCase().split(/\W+/).filter(w => w.length > 2)
SplitWords(text) ==
  SelectSeq(Flatten([i \in 1..Len(text) |-> Words(text[i])]),
            LAMBDA w : Len(w) > 2)

\* wordCount[word] || 0
WordCount(words, word) == Len(SelectSeq(words, LAMBDA w : w = word))

\* The count vector returned without the division by its magnitude.
generateEmbeddingUnnormalized(text) ==
  LET words     == SplitWords(text)
      embedding == [i \in 1..Len(vocabulary) |-> WordCount(words, vocabulary[i])]
  IN  [num |-> embedding, den2 |-> 1]

\* The embedding num[i] / sqrt(den2); den2 = 1 is the vector left as it is.
generateEmbedding(text) ==
  LET words     == SplitWords(text)
      embedding == [i \in 1..Len(vocabulary) |-> WordCount(words, vocabulary[i])]
      magnitude2 == SumSeq([i \in 1..Len(embedding) |-> embedding[i] * embedding[i]])
  IN  IF magnitude2 > 0 THEN [num |-> embedding, den2 |-> magnitude2]
                        ELSE [num |-> embedding, den2 |-> 1]

(***************************************************************************)
(* AIKnowledgeBase.calculateSimilarity                                     *)
(* The result is the non-negative number sqrt(n/d).                        *)
(***************************************************************************)
SimZero == [n |-> 0, d |-> 1]

\* The quotient taken without the test of the magnitudes: 0 / 0, which is
\* NaN, is the record with d = 0.
calculateSimilarityUnchecked(embedding1, embedding2) ==
  IF Len(embedding1.num) # Len(embedding2.num) THEN SimZero
  ELSE
    LET I          == 1..Len(embedding1.num)
        dotProduct == SumSeq([i \in I |-> embedding1.num[i] * embedding2.num[i]])
        magnitude1 == SumSeq([i \in I |-> embedding1.num[i] * embedding1.num[i]])
        magnitude2 == SumSeq([i \in I |-> embedding2.num[i] * embedding2.num[i]])
    IN  [n |-> dotProduct * dotProduct, d |-> magnitude1 * magnitude2]

calculateSimilarity(embedding1, embedding2) ==
  IF Len(embedding1.num) # Len(embedding2.num) THEN SimZero
  ELSE
    LET I          == 1..Len(embedding1.num)
        dotProduct == SumSeq([i \in I |-> embedding1.num[i] * embedding2.num[i]])
        magnitude1 == SumSeq([i \in I |-> embedding1.num[i] * embedding1.num[i]])
        magnitude2 == SumSeq([i \in I |-> embedding2.num[i] * embedding2.num[i]])
    IN  IF magnitude1 = 0 \/ magnitude2 = 0 THEN SimZero
        ELSE [n |-> dotProduct * dotProduct, d |-> magnitude1 * magnitude2]

\* sqrt(s.n / s.d) > p / q, for p, q > 0
SimGreater(s, p, q) == s.n * q * q > p * p * s.d

\* sqrt(s.n / s.d) >= p / q
SimAtLeast(s, p, q) == s.n * q * q >= p * p * s.d

\* sqrt(a.n / a.d) < sqrt(b.n / b.d)
SimLess(a, b) == a.n * b.d < b.n * a.d

(***************************************************************************)
(* The KnowledgeEntry collection: a sequence of documents in store order.  *)
(***************************************************************************)

\* new KnowledgeEntry({...}): the schema keeps metadata.stack and
\* metadata.category, and defaults reusageCount to 0 and successRate to 1.0.
\* The _id is the document's position in the collection.
NewKnowledgeEntry(id, projectId, userId, codeData, embedding) ==
  [ _id          |-> id,
    projectId    |-> projectId,
    userId       |-> userId,
    codeType     |-> codeData.codeType,
    description  |-> codeData.description,
    code         |-> codeData.code,
    metadata     |-> [stack    |-> codeData.metadata.stack,
                      category |-> codeData.metadata.category],
    embedding    |-> embedding,
    reusageCount |-> 0,
    successRate  |-> [n |-> 1, d |-> 1] ]

\* AIKnowledgeBase.storeCode when knowledgeEntry.save() succeeds: the
\* collection with the new document.
storeCode(db, projectId, userId, codeData) ==
  LET searchText == codeData.description \o codeData.code
      embedding  == generateEmbedding(searchText)
  IN  Append(db, NewKnowledgeEntry(Len(db) + 1, projectId, userId, codeData, embedding))

\* The criteria with the stack filter put on a field 'stack' of the
\* document, which no document has, in place of 'metadata.stack'.
MatchesCriteriaStackAtTopLevel(entry, filters) ==
  /\ Truthy(filters.userId)   => entry.userId = filters.userId
  /\ Truthy(filters.codeType) => entry.codeType = filters.codeType
  /\ Truthy(filters.stack)    => FALSE
  /\ Truthy(filters.category) => entry.metadata.category = filters.category

\* The search criteria built from the filters: a filter that is not truthy
\* is left out.
MatchesCriteria(entry, filters) ==
  /\ Truthy(filters.userId)   => entry.userId = filters.userId
  /\ Truthy(filters.codeType) => entry.codeType = filters.codeType
  /\ Truthy(filters.stack)    => entry.metadata.stack = filters.stack
  /\ Truthy(filters.category) => entry.metadata.category = filters.category

ScanLimit == 50
TopResults == 10

\* Array.prototype.sort((a, b) => b.similarity - a.similarity): stable,
\* descending by similarity.
RECURSIVE InsertBySimilarity(_, _)
InsertBySimilarity(sorted, r) ==
  IF sorted = <<>> THEN << r >>
  ELSE IF SimLess(Head(sorted).similarity, r.similarity)
       THEN << r >> \o sorted
       ELSE << Head(sorted) >> \o InsertBySimilarity(Tail(sorted), r)

\* The results left in store order.
SortBySimilarityOmitted(rs) == rs

RECURSIVE SortBySimilarity(_)
SortBySimilarity(rs) ==
  IF rs = <<>> THEN <<>>
  ELSE InsertBySimilarity(SortBySimilarity(SubSeq(rs, 1, Len(rs) - 1)), rs[Len(rs)])

\* .filter(entry => entry.similarity > 0.1)
AboveThreshold(r) == SimGreater(r.similarity, 1, 10)

\* The find without its limit: every matching document is loaded.
AllMatches(matching) == matching

\* KnowledgeEntry.find(searchCriteria).limit(50): the first documents that
\* match, in the order they were stored.
FirstMatches(matching) == SubSeq(matching, 1, Min(ScanLimit, Len(matching)))

\* AIKnowledgeBase.searchSimilarCode when the query succeeds.
searchSimilarCode(db, query, filters) ==
  LET queryEmbedding == generateEmbedding(query)
      matching == SelectSeq(db, LAMBDA e : MatchesCriteria(e, filters))
      entries  == FirstMatches(matching)
      scored   == [i \in 1..Len(entries) |->
                     [entry |-> entries[i],
                      similarity |-> calculateSimilarity(queryEmbedding,
                                                         entries[i].embedding)]]
      kept     == SelectSeq(scored, AboveThreshold)
      sorted   == SortBySimilarity(kept)
  IN  SubSeq(sorted, 1, Min(TopResults, Len(sorted)))

\* The running average with currentTotal taken from the incremented count:
\* successRate * reusageCount in place of successRate * (reusageCount - 1).
UpdatedMetricsTotalFromNewCount(entry, wasSuccessful) ==
  LET count    == entry.reusageCount + 1
      newTotal == entry.successRate.n * count
                    + (IF wasSuccessful THEN 1 ELSE 0) * entry.successRate.d
      den      == entry.successRate.d * count
      g        == GCD(newTotal, den)
  IN  [entry EXCEPT !.reusageCount = count,
                    !.successRate  = [n |-> newTotal \div g, d |-> den \div g]]

\* The running average with the flag read the wrong way round: a failure
\* adds 1 to the total, a success adds 0.
UpdatedMetricsFlagInverted(entry, wasSuccessful) ==
  LET count    == entry.reusageCount + 1
      newTotal == entry.successRate.n * (count - 1)
                    + (IF wasSuccessful THEN 0 ELSE 1) * entry.successRate.d
      den      == entry.successRate.d * count
      g        == GCD(newTotal, den)
  IN  [entry EXCEPT !.reusageCount = count,
                    !.successRate  = [n |-> newTotal \div g, d |-> den \div g]]

\* The new total stored without the division by the count.
UpdatedMetricsTotalNotAverage(entry, wasSuccessful) ==
  LET count    == entry.reusageCount + 1
      newTotal == entry.successRate.n * (count - 1)
                    + (IF wasSuccessful THEN 1 ELSE 0) * entry.successRate.d
      den      == entry.successRate.d
      g        == GCD(newTotal, den)
  IN  [entry EXCEPT !.reusageCount = count,
                    !.successRate  = [n |-> newTotal \div g, d |-> den \div g]]

\* AIKnowledgeBase.updateCodeMetrics: the running average of the success
\* rate; an unknown id changes nothing.
UpdatedMetrics(entry, wasSuccessful) ==
  LET count    == entry.reusageCount + 1
      newTotal == entry.successRate.n * (count - 1)
                    + (IF wasSuccessful THEN 1 ELSE 0) * entry.successRate.d
      den      == entry.successRate.d * count
      g        == GCD(newTotal, den)
  IN  [entry EXCEPT !.reusageCount = count,
                    !.successRate  = [n |-> newTotal \div g, d |-> den \div g]]

updateCodeMetrics(db, entryId, wasSuccessful) ==
  [i \in 1..Len(db) |->
     IF db[i]._id = entryId THEN UpdatedMetrics(db[i], wasSuccessful) ELSE db[i]]

(***************************************************************************)
(* AIOrchestrator: response parsing                                        *)
(***************************************************************************)

\* Tokens with a character outside \w.
NonWordTokens ==
  { "FENCE", "\n", "//", ":", "-", "File:", "Path:", "full-project", "src/Foo.jsx" }

IsWord(tok) == tok \notin NonWordTokens

IsSpace(tok) == tok = "\n"

\* String.prototype.trim on a token sequence: line breaks at both ends go.
RECURSIVE TrimLeft(_)
TrimLeft(t) == IF t # <<>> /\ IsSpace(Head(t)) THEN TrimLeft(Tail(t)) ELSE t

RECURSIVE TrimRight(_)
TrimRight(t) ==
  IF t # <<>> /\ IsSpace(t[Len(t)]) THEN TrimRight(SubSeq(t, 1, Len(t) - 1)) ELSE t

Trim(t) == TrimRight(TrimLeft(t))

\* The least index >= from at which t holds tok; 0 when there is none.
RECURSIVE IndexFrom(_, _, _)
IndexFrom(t, tok, from) ==
  IF from > Len(t) THEN 0
  ELSE IF t[from] = tok THEN from ELSE IndexFrom(t, tok, from + 1)

\* The least index >= from of a token that is not white space; Len(t) + 1
\* when there is none.
RECURSIVE SkipSpace(_, _)
SkipSpace(t, from) ==
  IF from <= Len(t) /\ IsSpace(t[from]) THEN SkipSpace(t, from + 1) ELSE from

\* [^\n]+ from index from: the tokens up to the end of the line.
RestOfLine(t, from) ==
  LET nl == IndexFrom(t, "\n", from)
  IN  SubSeq(t, from, IF nl = 0 THEN Len(t) ELSE nl - 1)

FileMarkers == { "File:", "Path:", "file:", "path:", "FILE:", "PATH:" }

\* filePathRegex = /\/\/\s*(?:File:|Path:)?\s*([^\n]+)/i at the comment
\* marker at index k: the captured group, <<>> when there is no match at k.
PathCaptureAt(code, k) ==
  LET a == SkipSpace(code, k + 1)
  IN  IF a > Len(code) THEN <<>>
      ELSE IF code[a] \in FileMarkers
           THEN LET b == SkipSpace(code, a + 1)
                IN  IF b > Len(code) THEN RestOfLine(code, a)
                                     ELSE RestOfLine(code, b)
           ELSE RestOfLine(code, a)

\* filePathRegex.exec(code): the capture of the leftmost match, <<>> for null.
RECURSIVE FilePathMatch(_, _)
FilePathMatch(code, from) ==
  LET k == IndexFrom(code, "//", from)
  IN  IF k = 0 THEN <<>>
      ELSE IF PathCaptureAt(code, k) # <<>> THEN PathCaptureAt(code, k)
           ELSE FilePathMatch(code, k + 1)

\* AIOrchestrator.getExtension
getExtension(language) ==
  CASE language = "javascript" -> "js"
    [] language = "jsx"        -> "jsx"
    [] language = "typescript" -> "ts"
    [] language = "tsx"        -> "tsx"
    [] language = "html"       -> "html"
    [] language = "css"        -> "css"
    [] language = "json"       -> "json"
    [] OTHER                   -> "js"

\* AIOrchestrator.generateDefaultFilePath
generateDefaultFilePath(type, language, index) ==
  LET generic == "src/file" \o ToString(index) \o "." \o getExtension(language)
      paths ==
        CASE type = "full-project" ->
               << "src/App.jsx", "src/index.js", "public/index.html", "package.json" >>
          [] type = "component" ->
               << "src/components/Component" \o ToString(index) \o ".jsx" >>
          [] type = "service" ->
               << "src/services/service" \o ToString(index) \o ".js" >>
          [] type = "route" ->
               << "src/routes/route" \o ToString(index) \o ".js" >>
          [] OTHER -> << generic >>
  IN  IF index + 1 <= Len(paths) THEN paths[index + 1] ELSE generic

\* filePath.split('.').pop() of a path whose last token is s.
RECURSIVE AfterLastDot(_, _)
AfterLastDot(s, i) ==
  IF i = 0 THEN s
  ELSE IF SubSeq(s, i, i) = "." THEN SubSeq(s, i + 1, Len(s))
       ELSE AfterLastDot(s, i - 1)

\* AIOrchestrator.mapLanguage
mapLanguage(detectedLang, filePath) ==
  LET last == filePath[Len(filePath)]
      ext  == AfterLastDot(last, Len(last))
  IN  CASE ext = "js"   -> "javascript"
        [] ext = "jsx"  -> "javascript"
        [] ext = "ts"   -> "typescript"
        [] ext = "tsx"  -> "typescript"
        [] ext = "html" -> "html"
        [] ext = "css"  -> "css"
        [] ext = "json" -> "json"
        [] ext = "md"   -> "markdown"
        [] OTHER        -> detectedLang

\* files[filePath] = {...}: a new key goes last, a key already there keeps
\* its place and takes the new value.
PutFile(files, file) ==
  IF \E i \in 1..Len(files) : files[i].path = file.path
  THEN [i \in 1..Len(files) |-> IF files[i].path = file.path THEN file ELSE files[i]]
  ELSE Append(files, file)

\* One match of codeBlockRegex = /```(?:(\w+)\s*\n)?([\s\S]*?)```/g at the
\* fence at index open, closed by the next fence at index close.
BlockFile(content, type, open, close, fileIndex) ==
  LET tagged   == /\ open + 2 < close
                  /\ IsWord(content[open + 1])
                  /\ IsSpace(content[open + 2])
      language == IF tagged THEN content[open + 1] ELSE "javascript"
      code     == Trim(SubSeq(content, IF tagged THEN open + 3 ELSE open + 1, close - 1))
      pathMatch == FilePathMatch(code, 1)
      filePath == IF pathMatch # <<>> THEN Trim(pathMatch)
                  ELSE << generateDefaultFilePath(type, language, fileIndex) >>
  IN  [path |-> filePath, content |-> code, language |-> mapLanguage(language, filePath)]

\* The loop without fileIndex++: every block is block 0.
RECURSIVE ParseBlocksFixedIndex(_, _, _, _, _)
ParseBlocksFixedIndex(content, type, from, fileIndex, files) ==
  LET open  == IndexFrom(content, "FENCE", from)
      close == IF open = 0 THEN 0 ELSE IndexFrom(content, "FENCE", open + 1)
  IN  IF open = 0 \/ close = 0 THEN files
      ELSE ParseBlocksFixedIndex(content, type, close + 1, fileIndex,
                                 PutFile(files, BlockFile(content, type, open, close,
                                                          fileIndex)))

\* The while loop over codeBlockRegex.exec(content), from token index from.
RECURSIVE ParseBlocks(_, _, _, _, _)
ParseBlocks(content, type, from, fileIndex, files) ==
  LET open  == IndexFrom(content, "FENCE", from)
      close == IF open = 0 THEN 0 ELSE IndexFrom(content, "FENCE", open + 1)
  IN  IF open = 0 \/ close = 0 THEN files
      ELSE ParseBlocks(content, type, close + 1, fileIndex + 1,
                       PutFile(files, BlockFile(content, type, open, close, fileIndex)))

\* parseCodeResponse with the single file of its catch block, 'App.jsx',
\* in place of the default path when no block is found.
parseCodeResponseCatchFallback(content, type) ==
  LET files == ParseBlocks(content, type, 1, 0, <<>>)
  IN  IF Len(files) = 0
      THEN << [path     |-> << "App.jsx" >>,
               content  |-> content,
               language |-> "javascript"] >>
      ELSE files

\* AIOrchestrator.parseCodeResponse: the files in insertion order.
parseCodeResponse(content, type) ==
  LET files == ParseBlocks(content, type, 1, 0, <<>>)
  IN  IF Len(files) = 0
      THEN << [path     |-> << generateDefaultFilePath(type, "javascript", 0) >>,
               content  |-> content,
               language |-> "javascript"] >>
      ELSE files

(***************************************************************************)
(* AIOrchestrator: provider selection and prompts                          *)
(***************************************************************************)

\* this.fallbackOrder
fallbackOrder == << "openai", "gemini", "claude", "deepseek", "openrouter" >>

Providers == { fallbackOrder[i] : i \in 1..Len(fallbackOrder) }

\* User.findOne found no document.
NoUser == [found |-> FALSE, defaultAiProvider |-> NoValue, keys |-> {}]

\* getUserApiKey(user, provider) is truthy: the user document or the
\* process environment holds a key for the provider.  user.keys is the set
\* of the providers with one.
getUserApiKey(user, provider) == provider \in user.keys

\* user.preferences?.defaultAiProvider || 'openai'
DefaultProvider(user) ==
  IF Truthy(user.defaultAiProvider) THEN user.defaultAiProvider ELSE "openai"

\* The loop of generateNewCode over this.fallbackOrder from index i on:
\* apiKey and currentProvider when the loop ends.
\* The loop followed by a check of currentProvider in place of apiKey: a
\* provider is always named, so the call goes on without a key.
RECURSIVE FallbackLoopNoKeyCheck(_, _, _)
FallbackLoopNoKeyCheck(user, i, state) ==
  IF i > Len(fallbackOrder) THEN [state EXCEPT !.apiKey = TRUE]
  ELSE IF getUserApiKey(user, fallbackOrder[i])
       THEN [apiKey |-> TRUE, currentProvider |-> fallbackOrder[i]]
       ELSE FallbackLoopNoKeyCheck(user, i + 1, state)

RECURSIVE FallbackLoop(_, _, _)
FallbackLoop(user, i, state) ==
  IF i > Len(fallbackOrder) THEN state
  ELSE IF getUserApiKey(user, fallbackOrder[i])
       THEN [apiKey |-> TRUE, currentProvider |-> fallbackOrder[i]]
       ELSE FallbackLoop(user, i + 1, [state EXCEPT !.apiKey = FALSE])

\* The provider generateNewCode calls, and whether it has a key for it.
SelectProvider(user) ==
  LET provider == DefaultProvider(user)
  IN  FallbackLoop(user, 1, [apiKey          |-> getUserApiKey(user, provider),
                             currentProvider |-> provider])

MaxExamples == 3

\* AIOrchestrator.buildGenerationPrompt: what of the prompt depends on the
\* call.
buildGenerationPrompt(projectData, request, knowledgeContext) ==
  [ kind     |-> "generation",
    type     |-> request.type,
    examples |-> [i \in 1..Min(MaxExamples, Len(knowledgeContext)) |->
                    [description |-> knowledgeContext[i].entry.description,
                     similarity  |-> knowledgeContext[i].similarity]],
    existing |-> <<>> ]

\* The adaptationPrompt of adaptExistingCode.
AdaptationPrompt(projectData, request, knowledgeEntry) ==
  [ kind     |-> "adaptation",
    type     |-> request.type,
    examples |-> <<>>,
    existing |-> knowledgeEntry.code ]

\* searchKnowledgeBase: the query and the filters of the Search step.
SearchQuery(request, projectData) ==
  request.description
    \o << request.type, projectData.category,
          IF Truthy(projectData.frontendTech) THEN projectData.frontendTech ELSE "react" >>

SearchFilters(userId, request, projectData) ==
  [ userId   |-> userId,
    codeType |-> request.type,
    stack    |-> IF Truthy(projectData.frontendTech) THEN projectData.frontendTech
                 ELSE "react",
    category |-> projectData.category ]

\* The codeData storeGeneratedCode passes to storeCode for one file.
StoredCodeData(request, file) ==
  [ code        |-> file.content,
    description |-> << request.type, ":" >> \o file.path \o << "-" >>
                      \o request.description,
    codeType    |-> request.type,
    metadata    |-> [filePath |-> file.path,
                     language |-> file.language,
                     stack    |-> IF Truthy(request.stack) THEN request.stack ELSE "react",
                     category |-> request.category] ]

\* The comparison of generateCode written with >= in place of >.
HighSimilarityAtLeast(results) ==
  Len(results) > 0 /\ SimAtLeast(results[1].similarity, 7, 10)

\* The comparison of generateCode against 0.8 in place of 0.7.
HighSimilarityAbove80(results) ==
  Len(results) > 0 /\ SimGreater(results[1].similarity, 8, 10)

\* The last of the search results handed to adaptExistingCode.
BottomResult(results) == results[Len(results)]

\* knowledgeResults[0], the result generateCode hands to adaptExistingCode.
TopResult(results) == results[1]

\* knowledgeResults.length > 0 && knowledgeResults[0].similarity > 0.7
HighSimilarity(results) ==
  Len(results) > 0 /\ SimGreater(results[1].similarity, 7, 10)

(***************************************************************************)
(* TerminalService: the terminals map and the shell processes              *)
(***************************************************************************)

\* The terminals created, and the commands one terminal is sent.
MaxTerminals == 2
MaxCommands == 1

\* uuidv4(): the n-th terminal created has the id n.
TerminalIds == 1..MaxTerminals

\* The session object of a terminal createTerminal has not made.
NoSession ==
  [ created   |-> FALSE,
    inMap     |-> FALSE,    \* this.terminals holds the session
    isAlive   |-> FALSE,
    projectId |-> NoValue,
    userId    |-> NoValue,
    commands  |-> <<>>,     \* the 'command' records of output
    stdin     |-> <<>>,     \* what was written to process.stdin
    killed    |-> FALSE,    \* process.kill() was called
    closed    |-> FALSE ]   \* the process has emitted 'close'

\* new Map(): no terminal yet.
NoTerminals == [t \in TerminalIds |-> NoSession]

\* The id of the next terminal.
NewTerminalId(ts) == Cardinality({ t \in TerminalIds : ts[t].created }) + 1

\* createTerminal: the process is spawned and the session put in the map.
createTerminal(ts, projectId, userId) ==
  [ts EXCEPT ![NewTerminalId(ts)] =
     [NoSession EXCEPT !.created = TRUE, !.inMap = TRUE, !.isAlive = TRUE,
                       !.projectId = projectId, !.userId = userId]]

\* The test of executeCommand and killTerminal without isAlive: a session in
\* the map passes.
IsActiveInMap(ts, terminalId) ==
  /\ terminalId \in TerminalIds
  /\ ts[terminalId].inMap

\* terminal && terminal.isAlive, for terminal = this.terminals.get(terminalId)
IsActive(ts, terminalId) ==
  /\ terminalId \in TerminalIds
  /\ ts[terminalId].inMap
  /\ ts[terminalId].isAlive

\* executeCommand past its test: the command is pushed to output and written
\* to the stdin of the process.
executeCommand(ts, terminalId, command) ==
  [ts EXCEPT ![terminalId].commands = Append(@, command),
             ![terminalId].stdin    = Append(@, command)]

\* killTerminal: an active terminal is killed and taken out of the map.
killTerminal(ts, terminalId) ==
  IF IsActive(ts, terminalId)
  THEN [ts EXCEPT ![terminalId].killed  = TRUE,
                  ![terminalId].isAlive = FALSE,
                  ![terminalId].inMap   = FALSE]
  ELSE ts

\* The 'close' handler createTerminal put on the process.
OnClose(ts, terminalId) ==
  [ts EXCEPT ![terminalId].isAlive = FALSE, ![terminalId].closed = TRUE]

\* cleanup: the sessions that are not alive leave the map.
cleanup(ts) ==
  [t \in TerminalIds |->
     IF ts[t].inMap /\ ~ts[t].isAlive THEN [ts[t] EXCEPT !.inMap = FALSE] ELSE ts[t]]

\* getProjectTerminals: the ids of the project's sessions in the map that
\* are alive.
getProjectTerminals(ts, projectId) ==
  { t \in TerminalIds : ts[t].inMap /\ ts[t].projectId = projectId /\ ts[t].isAlive }

(***************************************************************************)
(* SocketService: the connections and what the handlers emit               *)
(***************************************************************************)

SocketIds == { "s1", "s2" }

\* A socket that is not connected.
NoConnection ==
  [ connected |-> FALSE,
    userId    |-> NoValue,
    projectId |-> NoValue,
    rooms     |-> {},       \* the rooms the socket has joined
    events    |-> {},       \* the events emitted to the socket
    sentAuth  |-> FALSE,    \* it sent 'authenticate' with a userId and a projectId
    started   |-> FALSE ]   \* generateCodeLive was called for it

NoConnections == [s \in SocketIds |-> NoConnection]

TerminalRoom(terminalId) == "terminal:" \o ToString(terminalId)

ProjectRoom(projectId) == "project:" \o projectId

\* socket.emit(event, ...) for the socket of a handler; a call of the
\* service from elsewhere has no socket.
Emit(conns, socket, event) ==
  IF socket \in SocketIds
  THEN [conns EXCEPT ![socket].events = @ \cup { event }]
  ELSE conns

\* emitToTerminal: SocketService.emit sends 'terminal:output' to the sockets
\* in the room of the terminal.
EmitToTerminal(conns, terminalId) ==
  [s \in SocketIds |->
     IF conns[s].connected /\ TerminalRoom(terminalId) \in conns[s].rooms
     THEN [conns[s] EXCEPT !.events = @ \cup { "terminal:output" }]
     ELSE conns[s]]

\* connection?.userId && connection?.projectId
Authorized(conns, socket) ==
  /\ conns[socket].connected
  /\ Truthy(conns[socket].userId)
  /\ Truthy(conns[socket].projectId)

\* The terminals that were killed or whose process has closed.
Ended(ts) == { t \in TerminalIds : ts[t].killed \/ ts[t].closed }

\* Nothing called and no event handled yet.
NoOp ==
  [ socket     |-> "none",   \* the socket whose event was handled
    op         |-> "none",
    terminalId |-> 0,
    projectId  |-> NoValue,
    sentAuth   |-> FALSE,    \* the socket had sent a full 'authenticate' before
    error      |-> "none",   \* the message thrown or emitted as 'error'
    performed  |-> FALSE,    \* the terminal action or the generation took place
    ended      |-> {},       \* the terminals killed or closed when it was called
    listed     |-> {} ]      \* what getProjectTerminals returned

(***************************************************************************)
(* The inputs of the model                                                 *)
(***************************************************************************)

\* The calls of generateCode the model follows.
MaxCalls == 2

\* The User documents of the model: no document; the field
\* preferences.defaultAiProvider set to a provider of the schema's enum or
\* left unset; keys for no provider, for the default provider alone, for
\* providers before or after it in the fallback order, for it and others.
DefaultProviders == { "gemini", "openrouter", NoValue }

KeySets ==
  { {}, { "openai" }, { "gemini" }, { "gemini", "claude" },
    { "claude", "openrouter" }, { "openai", "gemini" } }

UserDocs ==
  { NoUser } \cup
  { [found |-> TRUE, defaultAiProvider |-> p, keys |-> ks] :
      p \in DefaultProviders, ks \in KeySets }

UserIds == { "u1" }

Projects == { [_id |-> "p1", name |-> "shop", category |-> "blog", frontendTech |-> "react"] }

\* A request as enhancedProjectController.generateLiveCode builds it (stack
\* and category copied from the project) and as a socket client sends it
\* (category left out).
Requests ==
  { [type |-> "component", description |-> d, stack |-> "react", category |-> c] :
      d \in { <<>>, << "form", "state" >> },
      c \in { "blog", NoValue } }

\* What a backend answers: two fenced blocks, the first with a file
\* comment; one fenced block without a comment; text without a fence.
Responses ==
  { << "FENCE", "jsx", "\n", "//", "File:", "src/Foo.jsx", "\n",
       "react", "form", "hook", "\n", "FENCE", "\n",
       "FENCE", "\n", "loading", "error", "\n", "FENCE" >>,
    << "FENCE", "\n", "react", "component", "react", "component",
       "react", "component", "\n", "FENCE" >>,
    << "success", "data" >> }

(***************************************************************************)
(* The state                                                               *)
(***************************************************************************)
VARIABLES
  kb,               \* the KnowledgeEntry collection, in store order
  ncalls,           \* calls of generateCode so far
  pc,               \* where the call of generateCode is
  args,             \* its arguments and the User document of its user
  knowledgeResults, \* what the Search step returned
  knowledgeContext, \* the knowledgeContext generateNewCode is called with
  viaAdapt,         \* generateNewCode runs in the catch of adaptExistingCode
  sent,             \* the backend calls of this call, in order
  response,         \* the content the backend call in flight returned
  result,           \* the GenerationResult produced
  outcome,          \* how the call ended: "returned", or the error thrown
  storeIndex,       \* the file storeGeneratedCode stores next
  persisted,        \* the ids of the entries this call stored
  storeFailed,      \* the paths of the files whose storeCode threw
  metricsCalls,     \* the updateCodeMetrics calls of this call
  lastSearch,       \* the last direct call of searchSimilarCode and its results
  fnCall,           \* a call of one of the synchronous functions and its value
  metricsOp,        \* the direct calls of updateCodeMetrics in flight, per caller
  updates,          \* the direct calls of updateCodeMetrics made and saved so far
  terminals,        \* the session objects of TerminalService, by terminal id
  connections,      \* the sockets of SocketService and what each was sent
  lastOp            \* the last call of TerminalService or socket event handled

vars == << kb, ncalls, pc, args, knowledgeResults, knowledgeContext, viaAdapt,
           sent, response, result, outcome, storeIndex, persisted, storeFailed,
           metricsCalls, lastSearch, fnCall, metricsOp, updates, terminals,
           connections, lastOp >>

socketState == << terminals, connections, lastOp >>

directState == << fnCall, metricsOp, updates, socketState >>

NoArgs == [userId |-> NoValue, projectData |-> NoValue, request |-> NoValue,
           user |-> NoUser]

NoResult == [source |-> "none", files |-> <<>>, provider |-> NoValue,
             originalEntry |-> 0]

Idle ==
  /\ pc = "idle"
  /\ args = NoArgs
  /\ knowledgeResults = <<>>
  /\ knowledgeContext = <<>>
  /\ viaAdapt = FALSE
  /\ sent = <<>>
  /\ response = <<>>
  /\ result = NoResult
  /\ outcome = "pending"
  /\ storeIndex = 0
  /\ persisted = <<>>
  /\ storeFailed = <<>>
  /\ metricsCalls = <<>>

NoSearch ==
  [ called  |-> FALSE,
    dbOk    |-> TRUE,
    query   |-> <<>>,
    filters |-> [userId |-> NoValue, codeType |-> NoValue, stack |-> NoValue,
                 category |-> NoValue],
    results |-> <<>> ]

\* No synchronous function has been called.
NoCall == [fn |-> "none", returned |-> FALSE]

\* The entries of the model that updateCodeMetrics is called with.
MaxStored == 2

\* The ids updateCodeMetrics is called with: those of the entries the
\* collection can hold and one that no entry has.
EntryIds == 1..(MaxStored + 1)

\* The callers of updateCodeMetrics.
Callers == { "c1", "c2" }

\* A document no query has loaded.
NoEntry ==
  NewKnowledgeEntry(0, NoValue, NoValue,
                    [codeType |-> NoValue, description |-> <<>>, code |-> <<>>,
                     metadata |-> [stack |-> NoValue, category |-> NoValue]],
                    generateEmbedding(<<>>))

\* A caller that is not in updateCodeMetrics.
IdleMetricsOp ==
  [ pc            |-> "idle",
    entryId       |-> 0,
    wasSuccessful |-> FALSE,
    found         |-> FALSE,    \* findById returned a document
    saved         |-> FALSE,    \* entry.save() wrote it back
    loaded        |-> NoEntry,  \* the document as findById returned it
    entry         |-> NoEntry,  \* the document findById returned, as changed
    before        |-> <<>> ]    \* the collection when the call began

NoUpdates == [calls |-> 0, saved |-> [i \in EntryIds |-> 0]]

\* Nothing stored and nothing called.
Quiet ==
  /\ kb = <<>>
  /\ ncalls = 0
  /\ Idle
  /\ lastSearch = NoSearch
  /\ metricsOp = [c \in Callers |-> IdleMetricsOp]
  /\ updates = NoUpdates
  /\ terminals = NoTerminals
  /\ connections = NoConnections
  /\ lastOp = NoOp

Init ==
  /\ Quiet
  /\ fnCall = NoCall

callState == << args, knowledgeResults, knowledgeContext, viaAdapt, sent,
                response, result, outcome, storeIndex, persisted, storeFailed,
                metricsCalls >>

(***************************************************************************)
(* AIOrchestrator.generateCode, one action per await                       *)
(***************************************************************************)

\* generateCode(userId, projectData, request) is called.
GenerateCode(userId, projectData, request, user) ==
  /\ pc = "idle"
  /\ UNCHANGED << lastSearch, directState >>
  /\ ncalls < MaxCalls
  /\ ncalls' = ncalls + 1
  /\ args' = [userId |-> userId, projectData |-> projectData, request |-> request,
              user |-> user]
  /\ pc' = "search"
  /\ UNCHANGED << kb, knowledgeResults, knowledgeContext, viaAdapt, sent, response,
                  result, outcome, storeIndex, persisted, storeFailed, metricsCalls >>

\* Steps 1 and 2: searchKnowledgeBase returns (the empty list when the
\* query throws) and generateCode picks adaptExistingCode or generateNewCode.
SearchAndDecide(dbOk) ==
  /\ pc = "search"
  /\ UNCHANGED << lastSearch, directState >>
  /\ LET found == IF dbOk
                  THEN searchSimilarCode(kb, SearchQuery(args.request, args.projectData),
                         SearchFilters(args.userId, args.request, args.projectData))
                  ELSE <<>>
     IN  /\ knowledgeResults' = found
         /\ IF HighSimilarity(found)
            THEN /\ pc' = "adapt"
                 /\ UNCHANGED knowledgeContext
            ELSE /\ pc' = "generate"
                 /\ knowledgeContext' = found
  /\ UNCHANGED << kb, ncalls, args, viaAdapt, sent, response, result, outcome,
                  storeIndex, persisted, storeFailed, metricsCalls >>

\* The catch of adaptExistingCode calling adaptExistingCode again.
AdaptFallsBackRetriesAdapt ==
  /\ pc' = "adapt"
  /\ knowledgeContext' = knowledgeContext
  /\ viaAdapt' = TRUE

\* The catch of adaptExistingCode passing the search results on.
AdaptFallsBackWithContext ==
  /\ pc' = "generate"
  /\ knowledgeContext' = knowledgeResults
  /\ viaAdapt' = TRUE

\* The catch of adaptExistingCode: generateNewCode(..., []).
AdaptFallsBack ==
  /\ pc' = "generate"
  /\ knowledgeContext' = <<>>
  /\ viaAdapt' = TRUE

\* adaptExistingCode up to the backend call: User.findOne, the key of the
\* default provider, the adaptation prompt.
AdaptExistingCode ==
  /\ pc = "adapt"
  /\ UNCHANGED << lastSearch, directState >>
  /\ LET provider == DefaultProvider(args.user)
     IN  IF args.user.found /\ getUserApiKey(args.user, provider)
         THEN /\ sent' = Append(sent,
                   [provider |-> provider, type |-> "code_adaptation",
                    prompt |-> AdaptationPrompt(args.projectData, args.request,
                                                TopResult(knowledgeResults).entry)])
              /\ pc' = "adaptCall"
              /\ UNCHANGED << knowledgeContext, viaAdapt >>
         ELSE /\ AdaptFallsBack
              /\ UNCHANGED sent
  /\ UNCHANGED << kb, ncalls, args, knowledgeResults, response, result, outcome,
                  storeIndex, persisted, storeFailed, metricsCalls >>

\* The backend call of adaptExistingCode throws.
AdaptCallFails ==
  /\ pc = "adaptCall"
  /\ UNCHANGED << lastSearch, directState >>
  /\ AdaptFallsBack
  /\ UNCHANGED << kb, ncalls, args, knowledgeResults, sent, response, result,
                  outcome, storeIndex, persisted, storeFailed, metricsCalls >>

\* The backend call of adaptExistingCode returns content.
AdaptCallReturns(content) ==
  /\ pc = "adaptCall"
  /\ UNCHANGED << lastSearch, directState >>
  /\ response' = content
  /\ pc' = "adaptMetrics"
  /\ UNCHANGED << kb, ncalls, args, knowledgeResults, knowledgeContext, viaAdapt,
                  sent, result, outcome, storeIndex, persisted, storeFailed,
                  metricsCalls >>

\* The metrics update recorded as a failure.
MetricsCallUnsuccessful(knowledgeEntry) ==
  [entryId |-> knowledgeEntry._id, wasSuccessful |-> FALSE]

\* The arguments of aiKnowledgeBase.updateCodeMetrics(knowledgeEntry._id, true).
MetricsCall(knowledgeEntry) ==
  [entryId |-> knowledgeEntry._id, wasSuccessful |-> TRUE]

\* updateCodeMetrics(knowledgeEntry._id, true) returns (it swallows what the
\* database throws) and adaptExistingCode returns the adapted result.
AdaptUpdatesMetrics(dbOk) ==
  /\ pc = "adaptMetrics"
  /\ UNCHANGED << lastSearch, directState >>
  /\ LET knowledgeEntry == TopResult(knowledgeResults).entry
         call == MetricsCall(knowledgeEntry)
     IN  /\ kb' = IF dbOk THEN updateCodeMetrics(kb, call.entryId, call.wasSuccessful)
                  ELSE kb
         /\ metricsCalls' = Append(metricsCalls, call)
         /\ result' = [source        |-> "adapted",
                       files         |-> parseCodeResponse(response, args.request.type),
                       provider      |-> sent[Len(sent)].provider,
                       originalEntry |-> knowledgeEntry._id]
  /\ outcome' = "returned"
  /\ pc' = "done"
  /\ UNCHANGED << ncalls, args, knowledgeResults, knowledgeContext, viaAdapt, sent,
                  response, storeIndex, persisted, storeFailed >>

\* generateNewCode up to the backend call: User.findOne, the provider, the
\* generation prompt.
GenerateNewCode ==
  /\ pc = "generate"
  /\ UNCHANGED << lastSearch, directState >>
  /\ LET chosen == SelectProvider(args.user)
     IN  IF ~args.user.found
         THEN /\ outcome' = "TypeError"
              /\ pc' = "done"
              /\ UNCHANGED sent
         ELSE IF ~chosen.apiKey
         THEN /\ outcome' = "No available AI provider API keys found"
              /\ pc' = "done"
              /\ UNCHANGED sent
         ELSE /\ sent' = Append(sent,
                   [provider |-> chosen.currentProvider, type |-> "code_generation",
                    prompt |-> buildGenerationPrompt(args.projectData, args.request,
                                                     knowledgeContext)])
              /\ pc' = "genCall"
              /\ UNCHANGED outcome
  /\ UNCHANGED << kb, ncalls, args, knowledgeResults, knowledgeContext, viaAdapt,
                  response, result, storeIndex, persisted, storeFailed, metricsCalls >>

\* The backend call of generateNewCode throws: generateCode throws it.
GenerateCallFails ==
  /\ pc = "genCall"
  /\ UNCHANGED << lastSearch, directState >>
  /\ outcome' = "backend error"
  /\ pc' = "done"
  /\ UNCHANGED << kb, ncalls, args, knowledgeResults, knowledgeContext, viaAdapt,
                  sent, response, result, storeIndex, persisted, storeFailed,
                  metricsCalls >>

\* The backend call of generateNewCode returns content: called from the
\* catch of adaptExistingCode the result is returned as it is, called from
\* generateCode the result goes to storeGeneratedCode.
GenerateCallReturns(content) ==
  /\ pc = "genCall"
  /\ UNCHANGED << lastSearch, directState >>
  /\ response' = content
  /\ result' = [source        |-> "generated",
                files         |-> parseCodeResponse(content, args.request.type),
                provider      |-> sent[Len(sent)].provider,
                originalEntry |-> 0]
  /\ IF viaAdapt
     THEN /\ outcome' = "returned"
          /\ pc' = "done"
          /\ UNCHANGED storeIndex
     ELSE /\ pc' = "store"
          /\ storeIndex' = 1
          /\ UNCHANGED outcome
  /\ UNCHANGED << kb, ncalls, args, knowledgeResults, knowledgeContext, viaAdapt,
                  sent, persisted, storeFailed, metricsCalls >>

\* The catch of storeGeneratedCode throwing the error on.
StoreErrorRethrown == "persistence error"

\* The catch of storeGeneratedCode logs the error: generateCode goes on to
\* return the result.
StoreErrorOutcome == "returned"

\* storeGeneratedCode: storeCode of the next file returns or throws.  The
\* try encloses the loop, so a throw ends the loop; after the loop
\* generateCode returns the result.
StoreGeneratedCode(saveOk) ==
  /\ pc = "store"
  /\ UNCHANGED << lastSearch, directState >>
  /\ LET file == result.files[storeIndex]
     IN  IF saveOk
         THEN /\ kb' = storeCode(kb, args.projectData._id, args.userId,
                                 StoredCodeData(args.request, file))
              /\ persisted' = Append(persisted, Len(kb) + 1)
              /\ storeIndex' = storeIndex + 1
              /\ UNCHANGED storeFailed
              /\ IF storeIndex = Len(result.files)
                 THEN outcome' = "returned" /\ pc' = "done"
                 ELSE UNCHANGED << outcome, pc >>
         ELSE /\ storeFailed' = Append(storeFailed, file.path)
              /\ outcome' = StoreErrorOutcome
              /\ pc' = "done"
              /\ UNCHANGED << kb, persisted, storeIndex >>
  /\ UNCHANGED << ncalls, args, knowledgeResults, knowledgeContext, viaAdapt, sent,
                  response, result, metricsCalls >>

\* The caller has the result or the error; the next call can begin.
Finish ==
  /\ pc = "done"
  /\ UNCHANGED << lastSearch, directState >>
  /\ pc' = "idle"
  /\ args' = NoArgs
  /\ knowledgeResults' = <<>>
  /\ knowledgeContext' = <<>>
  /\ viaAdapt' = FALSE
  /\ sent' = <<>>
  /\ response' = <<>>
  /\ result' = NoResult
  /\ outcome' = "pending"
  /\ storeIndex' = 0
  /\ persisted' = <<>>
  /\ storeFailed' = <<>>
  /\ metricsCalls' = <<>>
  /\ UNCHANGED << kb, ncalls >>

Next ==
  \/ \E u \in UserIds, p \in Projects, r \in Requests, d \in UserDocs :
       GenerateCode(u, p, r, d)
  \/ \E dbOk \in BOOLEAN : SearchAndDecide(dbOk)
  \/ AdaptExistingCode
  \/ AdaptCallFails
  \/ \E content \in Responses : AdaptCallReturns(content)
  \/ \E dbOk \in BOOLEAN : AdaptUpdatesMetrics(dbOk)
  \/ GenerateNewCode
  \/ GenerateCallFails
  \/ \E content \in Responses : GenerateCallReturns(content)
  \/ \E saveOk \in BOOLEAN : StoreGeneratedCode(saveOk)
  \/ Finish

Spec == Init /\ [][Next]_vars

(***************************************************************************)
(* The knowledge base called directly: storeCode and searchSimilarCode     *)
(***************************************************************************)

\* The most entries the collection holds.
MaxEntries == 11

\* The code stored directly.
StoredSamples ==
  { [code        |-> << "hook" >>,
     description |-> << "react", "form" >>,
     codeType    |-> "component",
     metadata    |-> [stack |-> "react", category |-> "blog"]],
    [code        |-> << "fetch", "data" >>,
     description |-> << "api" >>,
     codeType    |-> "component",
     metadata    |-> [stack |-> "react", category |-> "shop"]] }

Queries == { << "react", "form", "api" >>, << "api", "data" >>, << "button" >> }

FilterSets ==
  { [userId |-> "u1", codeType |-> "component", stack |-> NoValue, category |-> NoValue],
    [userId |-> "u1", codeType |-> NoValue, stack |-> "react", category |-> "shop"],
    [userId |-> "u2", codeType |-> NoValue, stack |-> NoValue, category |-> NoValue] }

\* The knowledge base is called by one caller, one call at a time.
\* aiKnowledgeBase.storeCode(projectId, userId, codeData): the document is
\* saved, or save() throws and storeCode throws it on.
StoreCodeCall(projectId, userId, codeData, saveOk) ==
  /\ pc = "idle"
  /\ ~lastSearch.called
  /\ Len(kb) < MaxEntries
  /\ kb' = IF saveOk THEN storeCode(kb, projectId, userId, codeData) ELSE kb
  /\ UNCHANGED << ncalls, pc, callState, lastSearch, directState >>

\* aiKnowledgeBase.searchSimilarCode(query, filters): the results, the
\* empty list when the query throws.
SearchSimilarCodeCall(query, filters, dbOk) ==
  /\ pc = "idle"
  /\ ~lastSearch.called
  /\ lastSearch' = [called  |-> TRUE,
                    dbOk    |-> dbOk,
                    query   |-> query,
                    filters |-> filters,
                    results |-> IF dbOk THEN searchSimilarCode(kb, query, filters)
                                ELSE <<>>]
  /\ UNCHANGED << kb, ncalls, pc, callState, directState >>

\* The caller has taken the results; its next call can begin.
SearchReturns ==
  /\ lastSearch.called
  /\ lastSearch' = NoSearch
  /\ UNCHANGED << kb, ncalls, pc, callState, directState >>

NextKB ==
  \/ \E c \in StoredSamples, saveOk \in BOOLEAN : StoreCodeCall("p1", "u1", c, saveOk)
  \/ \E q \in Queries, f \in FilterSets, dbOk \in BOOLEAN :
       SearchSimilarCodeCall(q, f, dbOk)
  \/ SearchReturns

SpecKB == Init /\ [][NextKB]_vars

(***************************************************************************)
(* searchSimilarCode on a collection larger than its limit                 *)
(***************************************************************************)

\* The most entries the collection holds beyond the limit of the find.
MaxBeyond == 2

\* The query of the searches, and the code stored: one entry the query
\* describes word for word, the others sharing two words with it, one word,
\* or none.
ScanQuery == << "react", "form", "hook" >>

ScanHit ==
  [code        |-> << "hook" >>,
   description |-> << "react", "form" >>,
   codeType    |-> "component",
   metadata    |-> [stack |-> "react", category |-> "blog"]]

ScanFiller(i) ==
  [code        |-> CASE i % 3 = 0 -> << "api", "data" >>
                     [] i % 3 = 1 -> << "api" >>
                     [] OTHER     -> << "fetch", "data" >>,
   description |-> CASE i % 3 = 0 -> << "react", "form" >>
                     [] i % 3 = 1 -> << "react" >>
                     [] OTHER     -> << "api" >>,
   codeType    |-> "component",
   metadata    |-> [stack |-> "react", category |-> "blog"]]

\* The document call i of storeCode adds to the collection: storeCode takes
\* from the collection its length alone.
ScanStored(i, userId, codeData) ==
  storeCode([j \in 1..(i - 1) |-> NoEntry], "p1", userId, codeData)[i]

\* The collection after n calls of storeCode: call h stores the entry the
\* query describes, call m is another user's and stores the same code, the
\* other calls store the fillers.  h = 0, m = 0: no such call.
ScanCollection(n, h, m) ==
  [i \in 1..n |-> ScanStored(i, IF i = m THEN "u2" ELSE "u1",
                              IF i = h \/ i = m THEN ScanHit ELSE ScanFiller(i))]

\* The collections searched: as many entries as the limit, or fewer, or
\* more; the described entry early, at the limit or beyond it; the other
\* user's entry absent, before the limit or beyond it.
ScanCollections ==
  { ScanCollection(n, h, m) :
      n \in (ScanLimit - 1)..(ScanLimit + MaxBeyond),
      h \in { 0, 7, ScanLimit, ScanLimit + 1, ScanLimit + MaxBeyond },
      m \in { 0, 3, ScanLimit + 1 } }

ScanFilters ==
  { [userId |-> "u1", codeType |-> "component", stack |-> NoValue, category |-> NoValue],
    [userId |-> "u1", codeType |-> NoValue, stack |-> "react", category |-> "blog"],
    [userId |-> NoValue, codeType |-> NoValue, stack |-> NoValue, category |-> NoValue] }

InitScan ==
  /\ kb \in ScanCollections
  /\ ncalls = 0
  /\ Idle
  /\ lastSearch = NoSearch
  /\ metricsOp = [c \in Callers |-> IdleMetricsOp]
  /\ updates = NoUpdates
  /\ fnCall = NoCall
  /\ terminals = NoTerminals
  /\ connections = NoConnections
  /\ lastOp = NoOp

NextScan ==
  \/ \E f \in ScanFilters, dbOk \in BOOLEAN : SearchSimilarCodeCall(ScanQuery, f, dbOk)
  \/ SearchReturns

SpecScan == InitScan /\ [][NextScan]_vars

(***************************************************************************)
(* calculateSimilarity called on its own                                   *)
(***************************************************************************)

\* The longest vector and the largest term count of the model.
MaxDim == 3
MaxCount == 2

\* The count vectors of every length up to MaxDim.
CountVectors == UNION { [1..n -> 0..MaxCount] : n \in 0..MaxDim }

\* The vectors calculateSimilarity is called with: a count vector scaled to
\* unit length as generateEmbedding scales it, the zero vector left as it is.
Embeddings ==
  { LET magnitude2 == SumSeq([i \in 1..Len(v) |-> v[i] * v[i]])
    IN  [num |-> v, den2 |-> IF magnitude2 > 0 THEN magnitude2 ELSE 1] :
      v \in CountVectors }

InitSimilarity ==
  /\ Quiet
  /\ fnCall \in { [fn |-> "calculateSimilarity", returned |-> FALSE,
                    embedding1 |-> a, embedding2 |-> b, value |-> SimZero] :
                     a \in Embeddings, b \in Embeddings }

\* calculateSimilarity(embedding1, embedding2) returns its value.
CalculateSimilarityCall ==
  /\ fnCall.fn = "calculateSimilarity"
  /\ ~fnCall.returned
  /\ fnCall' = [fnCall EXCEPT
                  !.returned = TRUE,
                  !.value = calculateSimilarity(fnCall.embedding1, fnCall.embedding2)]
  /\ UNCHANGED << kb, ncalls, pc, callState, lastSearch, metricsOp, updates,
                  socketState >>

NextSimilarity == CalculateSimilarityCall

SpecSimilarity == InitSimilarity /\ [][NextSimilarity]_vars

(***************************************************************************)
(* generateEmbedding called on its own                                     *)
(***************************************************************************)

\* The longest text of the model, in tokens.
MaxTextLen == 3

\* The tokens of the texts: vocabulary terms, one of them capitalised, a
\* word that is not in the vocabulary, a word of two letters, a word with a
\* hyphen, and a line break.
TextTokens == { "react", "React", "form", "api", "button", "ui", "full-project", "\n" }

Texts == UNION { [1..n -> TextTokens] : n \in 0..MaxTextLen }

InitEmbedding ==
  /\ Quiet
  /\ fnCall \in { [fn |-> "generateEmbedding", returned |-> FALSE, text |-> t,
                    value |-> generateEmbedding(<<>>)] : t \in Texts }

\* generateEmbedding(text) resolves with its value.
GenerateEmbeddingCall ==
  /\ fnCall.fn = "generateEmbedding"
  /\ ~fnCall.returned
  /\ fnCall' = [fnCall EXCEPT !.returned = TRUE,
                              !.value = generateEmbedding(fnCall.text)]
  /\ UNCHANGED << kb, ncalls, pc, callState, lastSearch, metricsOp, updates,
                  socketState >>

NextEmbedding == GenerateEmbeddingCall

SpecEmbedding == InitEmbedding /\ [][NextEmbedding]_vars

(***************************************************************************)
(* updateCodeMetrics called directly, one await at a time                  *)
(***************************************************************************)

\* The direct calls of updateCodeMetrics the model follows.
MaxUpdates == 4

\* No caller is in updateCodeMetrics.
MetricsQuiet == \A c \in Callers : metricsOp[c].pc = "idle"

\* KnowledgeEntry.findById answering with a document for an id that none
\* has: the last document of the collection.
findByIdOrLast(db, entryId) ==
  IF \E i \in 1..Len(db) : db[i]._id = entryId
  THEN CHOOSE i \in 1..Len(db) : db[i]._id = entryId
  ELSE Len(db)

\* KnowledgeEntry.findById(entryId): the position of the document with that
\* id, 0 for null.
findById(db, entryId) ==
  IF \E i \in 1..Len(db) : db[i]._id = entryId
  THEN CHOOSE i \in 1..Len(db) : db[i]._id = entryId
  ELSE 0

\* aiKnowledgeBase.updateCodeMetrics(entryId, wasSuccessful) is called.
UpdateCodeMetricsCall(c, entryId, wasSuccessful) ==
  /\ pc = "idle"
  /\ ~lastSearch.called
  /\ metricsOp[c].pc = "idle"
  /\ updates.calls < MaxUpdates
  /\ metricsOp' = [metricsOp EXCEPT ![c] =
                     [IdleMetricsOp EXCEPT !.pc = "find",
                                           !.entryId = entryId,
                                           !.wasSuccessful = wasSuccessful,
                                           !.before = kb]]
  /\ updates' = [updates EXCEPT !.calls = @ + 1]
  /\ UNCHANGED << kb, ncalls, pc, callState, lastSearch, fnCall, socketState >>

\* await KnowledgeEntry.findById(entryId) resolves or throws.  With a
\* document, reusageCount and successRate are changed on it; with null, or
\* in the catch, updateCodeMetrics returns.
MetricsFindById(c, dbOk) ==
  /\ metricsOp[c].pc = "find"
  /\ LET op == metricsOp[c]
         i  == findById(kb, op.entryId)
     IN  IF dbOk /\ i # 0
         THEN metricsOp' = [metricsOp EXCEPT ![c] =
                [op EXCEPT !.pc = "save",
                           !.found = TRUE,
                           !.loaded = kb[i],
                           !.entry = UpdatedMetrics(kb[i], op.wasSuccessful)]]
         ELSE metricsOp' = [metricsOp EXCEPT ![c] = [op EXCEPT !.pc = "returned"]]
  /\ UNCHANGED << kb, ncalls, pc, callState, lastSearch, fnCall, updates,
                  socketState >>

\* The save as an increment of the stored count by what the document's
\* count grew by.
SavedEntryIncrement(stored, loaded, doc) ==
  [stored EXCEPT !.reusageCount = @ + (doc.reusageCount - loaded.reusageCount),
                 !.successRate  = IF doc.successRate # loaded.successRate
                                  THEN doc.successRate ELSE @]

\* The save with the embedding computed again, from the code alone.
SavedEntryRecomputesEmbedding(stored, loaded, doc) ==
  [stored EXCEPT !.reusageCount = doc.reusageCount,
                 !.successRate  = doc.successRate,
                 !.embedding    = generateEmbedding(stored.code)]

\* The stored document after entry.save(): the fields updateCodeMetrics
\* assigned a new value to are set to the values the document holds, whatever
\* was stored since the document was loaded.
SavedEntry(stored, loaded, doc) ==
  [stored EXCEPT !.reusageCount = IF doc.reusageCount # loaded.reusageCount
                                  THEN doc.reusageCount ELSE @,
                 !.successRate  = IF doc.successRate # loaded.successRate
                                  THEN doc.successRate ELSE @]

\* await entry.save() writes the changed fields or throws; either way
\* updateCodeMetrics returns.
MetricsSave(c, dbOk) ==
  /\ metricsOp[c].pc = "save"
  /\ LET op == metricsOp[c]
     IN  IF dbOk
         THEN /\ kb' = [i \in 1..Len(kb) |->
                         IF kb[i]._id = op.entry._id
                         THEN SavedEntry(kb[i], op.loaded, op.entry)
                         ELSE kb[i]]
              /\ updates' = [updates EXCEPT !.saved[op.entryId] = @ + 1]
              /\ metricsOp' = [metricsOp EXCEPT ![c] =
                                [op EXCEPT !.pc = "returned", !.saved = TRUE]]
         ELSE /\ metricsOp' = [metricsOp EXCEPT ![c] = [op EXCEPT !.pc = "returned"]]
              /\ UNCHANGED << kb, updates >>
  /\ UNCHANGED << ncalls, pc, callState, lastSearch, fnCall, socketState >>

\* The caller goes on after updateCodeMetrics has returned.
MetricsReturns(c) ==
  /\ metricsOp[c].pc = "returned"
  /\ metricsOp' = [metricsOp EXCEPT ![c] = IdleMetricsOp]
  /\ UNCHANGED << kb, ncalls, pc, callState, lastSearch, fnCall, updates,
                  socketState >>

\* One caller at a time stores code and updates metrics.
NextMetrics ==
  \/ \E codeData \in StoredSamples, saveOk \in BOOLEAN :
       /\ MetricsQuiet
       /\ Len(kb) < MaxStored
       /\ StoreCodeCall("p1", "u1", codeData, saveOk)
  \/ \E c \in Callers, entryId \in EntryIds, wasSuccessful \in BOOLEAN :
       /\ MetricsQuiet
       /\ UpdateCodeMetricsCall(c, entryId, wasSuccessful)
  \/ \E c \in Callers, dbOk \in BOOLEAN : MetricsFindById(c, dbOk)
  \/ \E c \in Callers, dbOk \in BOOLEAN : MetricsSave(c, dbOk)
  \/ \E c \in Callers : MetricsReturns(c)

SpecMetrics == Init /\ [][NextMetrics]_vars

(***************************************************************************)
(* updateCodeMetrics called by two callers at once                         *)
(***************************************************************************)

\* The calls of updateCodeMetrics two callers make at once.
MaxRaceCalls == 3

\* The ids the two callers name: the id of the stored entry and an id no
\* entry has.
RaceIds == { 1, 2 }

\* One entry is stored; then a caller calls updateCodeMetrics while the
\* other is between the awaits of its own call.
NextRace ==
  \/ \E codeData \in StoredSamples, saveOk \in BOOLEAN :
       /\ kb = <<>>
       /\ MetricsQuiet
       /\ StoreCodeCall("p1", "u1", codeData, saveOk)
  \/ \E c \in Callers, entryId \in RaceIds, wasSuccessful \in BOOLEAN :
       /\ kb # <<>>
       /\ updates.calls < MaxRaceCalls
       /\ UpdateCodeMetricsCall(c, entryId, wasSuccessful)
  \/ \E c \in Callers, dbOk \in BOOLEAN : MetricsFindById(c, dbOk)
  \/ \E c \in Callers, dbOk \in BOOLEAN : MetricsSave(c, dbOk)
  \/ \E c \in Callers : MetricsReturns(c)

SpecRace == Init /\ [][NextRace]_vars

(***************************************************************************)
(* generateCode and the direct calls of the knowledge base together        *)
(***************************************************************************)

\* The direct calls of updateCodeMetrics between the calls of generateCode.
MaxFrameUpdates == 1

\* a + b of two fractions, reduced.
FracAdd(a, b) ==
  LET n == a.n * b.d + b.n * a.d
      d == a.d * b.d
      g == IF n = 0 THEN d ELSE GCD(n, d)
  IN  [n |-> n \div g, d |-> d \div g]

\* The sum of the successRate of the documents of a group.
RECURSIVE RateSum(_)
RateSum(entries) ==
  IF entries = <<>> THEN [n |-> 0, d |-> 1]
  ELSE FracAdd(entries[1].successRate, RateSum(Tail(entries)))

\* KnowledgeEntry.aggregate([{ $match: { userId } }, { $group: ... }]): one
\* group for each codeType of the user's entries.
StatsByType(db, userId) ==
  LET Mine(e)  == e.userId = userId
      types    == { db[i].codeType : i \in { j \in 1..Len(db) : Mine(db[j]) } }
      group(t) ==
        LET In(e) == Mine(e) /\ e.codeType = t
            count == Len(SelectSeq(db, In))
            sum   == RateSum(SelectSeq(db, In))
        IN  [ _id            |-> t,
              count          |-> count,
              avgSuccessRate |-> FracAdd([n |-> 0, d |-> 1],
                                         [n |-> sum.n, d |-> sum.d * count]),
              totalReusage   |-> SumSeq([i \in 1..Len(db) |->
                                   IF In(db[i]) THEN db[i].reusageCount ELSE 0]) ]
  IN  { group(t) : t \in types }

\* KnowledgeEntry.countDocuments({ userId })
CountDocuments(db, userId) == Len(SelectSeq(db, LAMBDA e : e.userId = userId))

\* What getKnowledgeStats returns from its catch.
NoStats(userId) ==
  [fn |-> "getKnowledgeStats", returned |-> TRUE, userId |-> userId,
   byType |-> {}, totalEntries |-> 0]

\* No direct call of the knowledge base is in flight.
FrameQuiet ==
  /\ MetricsQuiet
  /\ ~lastSearch.called
  /\ fnCall = NoCall

\* aiOrchestrator.getKnowledgeStats(userId) up to its first await: the
\* aggregate answers or throws.
GetKnowledgeStatsCall(userId, dbOk) ==
  /\ pc = "idle"
  /\ FrameQuiet
  /\ fnCall' = IF dbOk
               THEN [fn |-> "getKnowledgeStats", returned |-> FALSE, userId |-> userId,
                     byType |-> StatsByType(kb, userId), totalEntries |-> 0]
               ELSE NoStats(userId)
  /\ UNCHANGED << kb, ncalls, pc, callState, lastSearch, metricsOp, updates,
                  socketState >>

\* await KnowledgeEntry.countDocuments({ userId }) answers or throws, and
\* getKnowledgeStats returns.
StatsCountDocuments(dbOk) ==
  /\ fnCall.fn = "getKnowledgeStats"
  /\ ~fnCall.returned
  /\ fnCall' = IF dbOk
               THEN [fnCall EXCEPT !.returned = TRUE,
                                   !.totalEntries = CountDocuments(kb, fnCall.userId)]
               ELSE NoStats(fnCall.userId)
  /\ UNCHANGED << kb, ncalls, pc, callState, lastSearch, metricsOp, updates,
                  socketState >>

\* The caller has taken the statistics.
StatsReturns ==
  /\ fnCall.fn = "getKnowledgeStats"
  /\ fnCall.returned
  /\ fnCall' = NoCall
  /\ UNCHANGED << kb, ncalls, pc, callState, lastSearch, metricsOp, updates,
                  socketState >>

\* The calls of generateCode: a user with a key for the default provider,
\* a request that names the project's category, a backend that answers with
\* two fenced blocks.
FrameUsers ==
  { [found |-> TRUE, defaultAiProvider |-> NoValue, keys |-> { "openai" }] }

FrameRequests ==
  { r \in Requests : r.description = << "form", "state" >> /\ r.category = "blog" }

FrameResponses == { content \in Responses : Len(parseCodeResponse(content, "component")) = 2 }

\* The direct searches.
FrameQueries == { << "react", "form", "api" >> }

FrameFilters ==
  { [userId |-> "u1", codeType |-> "component", stack |-> NoValue, category |-> NoValue] }

\* Calls of generateCode with direct calls of storeCode, searchSimilarCode,
\* updateCodeMetrics and getKnowledgeStats between them, one direct call at
\* a time.
NextFrame ==
  \/ \E u \in UserIds, p \in Projects, r \in FrameRequests, d \in FrameUsers :
       /\ FrameQuiet
       /\ GenerateCode(u, p, r, d)
  \/ \E dbOk \in BOOLEAN : SearchAndDecide(dbOk)
  \/ AdaptExistingCode
  \/ AdaptCallFails
  \/ \E content \in FrameResponses : AdaptCallReturns(content)
  \/ \E dbOk \in BOOLEAN : AdaptUpdatesMetrics(dbOk)
  \/ GenerateNewCode
  \/ GenerateCallFails
  \/ \E content \in FrameResponses : GenerateCallReturns(content)
  \/ \E saveOk \in BOOLEAN : StoreGeneratedCode(saveOk)
  \/ Finish
  \/ \E codeData \in StoredSamples, saveOk \in BOOLEAN :
       /\ FrameQuiet
       /\ kb = <<>>
       /\ StoreCodeCall("p1", "u1", codeData, saveOk)
  \/ \E q \in FrameQueries, f \in FrameFilters, dbOk \in BOOLEAN :
       /\ FrameQuiet
       /\ SearchSimilarCodeCall(q, f, dbOk)
  \/ SearchReturns
  \/ \E entryId \in EntryIds, wasSuccessful \in BOOLEAN :
       /\ FrameQuiet
       /\ updates.calls < MaxFrameUpdates
       /\ UpdateCodeMetricsCall("c1", entryId, wasSuccessful)
  \/ \E dbOk \in BOOLEAN : MetricsFindById("c1", dbOk)
  \/ \E dbOk \in BOOLEAN : MetricsSave("c1", dbOk)
  \/ MetricsReturns("c1")
  \/ \E userId \in { "u1", "u2" }, dbOk \in BOOLEAN :
       GetKnowledgeStatsCall(userId, dbOk)
  \/ \E dbOk \in BOOLEAN : StatsCountDocuments(dbOk)
  \/ StatsReturns

SpecFrame == Init /\ [][NextFrame]_vars

(***************************************************************************)
(* TerminalService called directly                                         *)
(***************************************************************************)

\* What the terminal service and the socket service leave alone.
coreState == << kb, ncalls, pc, callState, lastSearch, fnCall, metricsOp, updates >>

\* lastOp for a call made by a socket's handler, or from elsewhere.
OpBy(socket, op, terminalId) ==
  [NoOp EXCEPT !.socket = socket, !.op = op, !.terminalId = terminalId,
               !.sentAuth = socket \in SocketIds /\ connections[socket].sentAuth,
               !.ended = Ended(terminals)]

\* createTerminal(projectId, userId) called for a socket or from elsewhere;
\* the handler of 'terminal:create' emits 'terminal:created' and joins the
\* room of the terminal.
CreateBy(socket, projectId, userId) ==
  /\ NewTerminalId(terminals) \in TerminalIds
  /\ terminals' = createTerminal(terminals, projectId, userId)
  /\ connections' =
       IF socket \in SocketIds
       THEN [connections EXCEPT
               ![socket].events = @ \cup { "terminal:created" },
               ![socket].rooms  = @ \cup { TerminalRoom(NewTerminalId(terminals)) }]
       ELSE connections
  /\ lastOp' = [OpBy(socket, "createTerminal", NewTerminalId(terminals))
                  EXCEPT !.performed = TRUE, !.projectId = projectId]
  /\ UNCHANGED coreState

\* executeCommand(terminalId, command): it throws, and the handler of
\* 'terminal:execute' emits 'error', or it records the command, emits it to
\* the room of the terminal and writes it to the stdin of the process.
ExecuteBy(socket, terminalId, command) ==
  /\ IsActive(terminals, terminalId) => Len(terminals[terminalId].stdin) < MaxCommands
  /\ IF IsActive(terminals, terminalId)
     THEN /\ terminals' = executeCommand(terminals, terminalId, command)
          /\ connections' = EmitToTerminal(connections, terminalId)
          /\ lastOp' = [OpBy(socket, "executeCommand", terminalId)
                          EXCEPT !.performed = TRUE]
     ELSE /\ connections' = Emit(connections, socket, "error")
          /\ lastOp' = [OpBy(socket, "executeCommand", terminalId)
                          EXCEPT !.error = "Terminal not found or not active"]
          /\ UNCHANGED terminals
  /\ UNCHANGED coreState

\* killTerminal(terminalId), and socket.leave in the handler of
\* 'terminal:kill'.
KillBy(socket, terminalId) ==
  /\ terminals' = killTerminal(terminals, terminalId)
  /\ connections' =
       LET emitted == IF IsActive(terminals, terminalId)
                      THEN EmitToTerminal(connections, terminalId)
                      ELSE connections
       IN  IF socket \in SocketIds
           THEN [emitted EXCEPT ![socket].rooms = @ \ { TerminalRoom(terminalId) }]
           ELSE emitted
  /\ lastOp' = [OpBy(socket, "killTerminal", terminalId)
                  EXCEPT !.performed = IsActive(terminals, terminalId)]
  /\ UNCHANGED coreState

CreateTerminalCall(projectId, userId) == CreateBy("none", projectId, userId)

ExecuteCommandCall(terminalId, command) == ExecuteBy("none", terminalId, command)

KillTerminalCall(terminalId) == KillBy("none", terminalId)

\* The process of a terminal emits 'close', after a kill or on its own.
ProcessClose(terminalId) ==
  /\ terminals[terminalId].created
  /\ ~terminals[terminalId].closed
  /\ terminals' = OnClose(terminals, terminalId)
  /\ connections' = EmitToTerminal(connections, terminalId)
  /\ UNCHANGED << lastOp, coreState >>

CleanupCall ==
  /\ terminals' = cleanup(terminals)
  /\ lastOp' = OpBy("none", "cleanup", 0)
  /\ UNCHANGED << connections, coreState >>

GetProjectTerminalsCall(projectId) ==
  /\ lastOp' = [OpBy("none", "getProjectTerminals", 0)
                  EXCEPT !.projectId = projectId,
                         !.listed = getProjectTerminals(terminals, projectId)]
  /\ UNCHANGED << terminals, connections, coreState >>

\* The projects and commands of the calls.
TerminalProjects == { "p1", "p2" }

Commands == { "npm install" }

NextTerminal ==
  \/ \E projectId \in TerminalProjects : CreateTerminalCall(projectId, "system")
  \/ \E terminalId \in TerminalIds, command \in Commands :
       ExecuteCommandCall(terminalId, command)
  \/ \E terminalId \in TerminalIds : KillTerminalCall(terminalId)
  \/ \E terminalId \in TerminalIds : ProcessClose(terminalId)
  \/ CleanupCall
  \/ \E projectId \in TerminalProjects : GetProjectTerminalsCall(projectId)

SpecTerminal == Init /\ [][NextTerminal]_vars

(***************************************************************************)
(* SocketService: the handlers of the events of a connection               *)
(***************************************************************************)

\* io.on('connection'): the connection is stored without user and project.
Connect(socket) ==
  /\ ~connections[socket].connected
  /\ connections' = [connections EXCEPT ![socket] =
                       [NoConnection EXCEPT !.connected = TRUE]]
  /\ UNCHANGED << terminals, lastOp, coreState >>

\* 'authenticate': what the client sent is stored as it is; the socket joins
\* the room of the project when one is named.
Authenticate(socket, userId, projectId) ==
  /\ connections[socket].connected
  /\ connections' = [connections EXCEPT
       ![socket].userId    = userId,
       ![socket].projectId = projectId,
       ![socket].rooms     = IF Truthy(projectId) THEN @ \cup { ProjectRoom(projectId) }
                             ELSE @,
       ![socket].sentAuth  = @ \/ (Truthy(userId) /\ Truthy(projectId))]
  /\ UNCHANGED << terminals, lastOp, coreState >>

\* The handlers of 'terminal:create' and 'code:generate' for a connection
\* without a userId or a projectId.
NotAuthenticated(socket, op) ==
  /\ connections' = Emit(connections, socket, "error")
  /\ lastOp' = [OpBy(socket, op, 0) EXCEPT !.error = "Not authenticated"]
  /\ UNCHANGED << terminals, coreState >>

\* 'terminal:create'
TerminalCreate(socket) ==
  /\ connections[socket].connected
  /\ IF Authorized(connections, socket)
     THEN CreateBy(socket, connections[socket].projectId, connections[socket].userId)
     ELSE NotAuthenticated(socket, "createTerminal")

\* 'terminal:execute'
TerminalExecute(socket, terminalId, command) ==
  /\ connections[socket].connected
  /\ ExecuteBy(socket, terminalId, command)

\* 'terminal:kill'
TerminalKill(socket, terminalId) ==
  /\ connections[socket].connected
  /\ KillBy(socket, terminalId)

\* 'code:generate': 'code:generation:started' is emitted and
\* generateCodeLive is called.
CodeGenerate(socket) ==
  /\ connections[socket].connected
  /\ IF Authorized(connections, socket)
     THEN /\ connections' = [connections EXCEPT
               ![socket].events  = @ \cup { "code:generation:started" },
               ![socket].started = TRUE]
          /\ lastOp' = [OpBy(socket, "generateCodeLive", 0)
                          EXCEPT !.performed = TRUE,
                                 !.projectId = connections[socket].projectId]
          /\ UNCHANGED << terminals, coreState >>
     ELSE NotAuthenticated(socket, "generateCodeLive")

\* 'disconnect'
Disconnect(socket) ==
  /\ connections[socket].connected
  /\ connections' = [connections EXCEPT ![socket] = NoConnection]
  /\ UNCHANGED << terminals, lastOp, coreState >>

\* What a client sends with 'authenticate': s1 a userId and a projectId, s2
\* one of the two at most.
AuthData ==
  [ s1 |-> { [userId |-> "u1", projectId |-> "p1"] },
    s2 |-> { [userId |-> "u1", projectId |-> NoValue],
             [userId |-> NoValue, projectId |-> "p1"] } ]

\* Two connections and one terminal: a terminal is created when none has
\* been; the other terminal id is an id no terminal has.
NextSocket ==
  \/ \E socket \in SocketIds : Connect(socket)
  \/ \E socket \in SocketIds : \E data \in AuthData[socket] :
       Authenticate(socket, data.userId, data.projectId)
  \/ \E socket \in SocketIds :
       /\ terminals = NoTerminals
       /\ TerminalCreate(socket)
  \/ \E socket \in SocketIds, terminalId \in TerminalIds, command \in Commands :
       TerminalExecute(socket, terminalId, command)
  \/ \E socket \in SocketIds, terminalId \in TerminalIds : TerminalKill(socket, terminalId)
  \/ \E socket \in SocketIds : CodeGenerate(socket)
  \/ \E socket \in SocketIds : Disconnect(socket)
  \/ \E terminalId \in TerminalIds : ProcessClose(terminalId)

SpecSocket == Init /\ [][NextSocket]_vars

(***************************************************************************)
(* parseCodeResponse called on its own                                     *)
(***************************************************************************)

\* The most pieces a backend's answer is made of.
MaxParts == 2

\* The language tag after the opening fence; "" is no tag.
BlockTags == { "", "jsx", "css" }

\* What stands between the fences: code under a File: comment, code under
\* a Path: comment, code without a comment, code under a comment that names
\* no file, code with a File: comment on its last line.
BlockBodies ==
  { << "//", "File:", "src/Foo.jsx", "\n", "react", "form", "hook" >>,
    << "//", "Path:", "src/Foo.jsx", "\n", "api" >>,
    << "loading", "error" >>,
    << "//", "helper", "\n", "fetch", "data" >>,
    << "api", "\n", "//", "File:", "src/Foo.jsx" >> }

\* The pieces of an answer: a fenced block, text outside a fence, a block
\* whose closing fence is missing.
Pieces ==
  { [kind |-> "block", tag |-> t, body |-> b] : t \in BlockTags, b \in BlockBodies }
    \cup { [kind |-> "text", tag |-> "", body |-> << "success", "data" >>],
           [kind |-> "open", tag |-> "jsx", body |-> << "react", "component" >>] }

\* The text of one piece.
RenderPiece(p) ==
  CASE p.kind = "block" ->
         << "FENCE" >> \o (IF p.tag # "" THEN << p.tag >> ELSE <<>>) \o << "\n" >>
           \o p.body \o << "\n", "FENCE" >>
    [] p.kind = "open" -> << "FENCE", p.tag, "\n" >> \o p.body
    [] OTHER -> p.body

\* The text of an answer: its pieces, each on lines of its own.
RECURSIVE Render(_)
Render(parts) ==
  IF Len(parts) = 0 THEN <<>>
  ELSE IF Len(parts) = 1 THEN RenderPiece(parts[1])
  ELSE RenderPiece(parts[1]) \o << "\n" >> \o Render(Tail(parts))

\* The answers of the model: an unclosed block comes last.
Answers ==
  { parts \in UNION { [1..n -> Pieces] : n \in 1..MaxParts } :
      \A i \in 1..(Len(parts) - 1) : parts[i].kind # "open" }

\* The request types: three of the path table and one it does not have.
ParseTypes == { "component", "full-project", "service", "page" }

InitParse ==
  /\ Quiet
  /\ fnCall \in { [fn |-> "parseCodeResponse", returned |-> FALSE, parts |-> parts,
                    content |-> Render(parts), type |-> type, value |-> <<>>] :
                     parts \in Answers, type \in ParseTypes }

\* parseCodeResponse(content, type) returns the files.
ParseCodeResponseCall ==
  /\ fnCall.fn = "parseCodeResponse"
  /\ ~fnCall.returned
  /\ fnCall' = [fnCall EXCEPT !.returned = TRUE,
                              !.value = parseCodeResponse(fnCall.content, fnCall.type)]
  /\ UNCHANGED << kb, ncalls, pc, callState, lastSearch, metricsOp, updates,
                  socketState >>

NextParse == ParseCodeResponseCall

SpecParse == InitParse /\ [][NextParse]_vars

(***************************************************************************)
(* A store followed by a search                                            *)
(***************************************************************************)

\* The most entries stored before the search.
MaxScenarioEntries == 2

\* The code stored: a button component whose code is the one word "button",
\* the same with vocabulary terms in its code, the same under another
\* category, and a service.
ScenarioSamples ==
  { [code        |-> << "button" >>,
     description |-> << "react", "button", "component" >>,
     codeType    |-> "component",
     metadata    |-> [stack |-> "react", category |-> "blog"]],
    [code        |-> << "function", "button", "props", "button" >>,
     description |-> << "react", "button", "component" >>,
     codeType    |-> "component",
     metadata    |-> [stack |-> "react", category |-> "blog"]],
    [code        |-> << "button" >>,
     description |-> << "react", "button", "component" >>,
     codeType    |-> "component",
     metadata    |-> [stack |-> "react", category |-> "shop"]],
    [code        |-> << "fetch", "data" >>,
     description |-> << "api", "service" >>,
     codeType    |-> "service",
     metadata    |-> [stack |-> "react", category |-> "blog"]] }

ScenarioQueries == { << "button", "component" >>, << "api", "data" >> }

ScenarioFilters ==
  { [userId |-> "u1", codeType |-> "component", stack |-> "react", category |-> "blog"],
    [userId |-> "u1", codeType |-> "component", stack |-> "react", category |-> "shop"],
    [userId |-> "u2", codeType |-> "component", stack |-> "react", category |-> "blog"] }

NextScenario ==
  \/ \E codeData \in ScenarioSamples, saveOk \in BOOLEAN :
       /\ Len(kb) < MaxScenarioEntries
       /\ StoreCodeCall("p1", "u1", codeData, saveOk)
  \/ \E q \in ScenarioQueries, f \in ScenarioFilters, dbOk \in BOOLEAN :
       SearchSimilarCodeCall(q, f, dbOk)
  \/ SearchReturns

SpecScenario == Init /\ [][NextScenario]_vars

(***************************************************************************)
(* Properties of generateCode                                              *)
(***************************************************************************)

\* The Decide step has run and chosen between the Adapt and Generate steps.
Decided == pc \in { "adapt", "generate" } /\ ~viaAdapt

TopSimilarity == knowledgeResults[1].similarity

\* The adaptation call was sent and threw.
AdaptCallFailed ==
  /\ viaAdapt
  /\ Len(sent) >= 1
  /\ sent[1].type = "code_adaptation"

\* The adaptation call was sent and returned.
AdaptCallSucceeded ==
  /\ ~viaAdapt
  /\ pc \in { "adaptMetrics", "done" }
  /\ Len(sent) = 1
  /\ sent[1].type = "code_adaptation"

\* C1, as claimed: the Adapt step is taken exactly when the search returned
\* a result and the top similarity is >= 0.7.
C1_AdaptAtLeast70 ==
  Decided =>
    (pc = "adapt" <=>
       (Len(knowledgeResults) > 0 /\ SimAtLeast(TopSimilarity, 7, 10)))

\* C1, amended: the Adapt step is taken exactly when the search returned a
\* result and the top similarity is strictly above 0.7; with no result or a
\* top similarity of 0.7 or less the Generate step is taken.
C1_AdaptAbove70 ==
  Decided =>
    /\ pc = "adapt" <=>
         (Len(knowledgeResults) > 0 /\ SimGreater(TopSimilarity, 7, 10))
    /\ pc = "generate" <=>
         (Len(knowledgeResults) = 0 \/ ~SimGreater(TopSimilarity, 7, 10))

\* A top similarity of exactly 0.7 led to the Generate step.
C1_Witness ==
  /\ Decided
  /\ pc = "generate"
  /\ Len(knowledgeResults) > 0
  /\ TopSimilarity.n * 100 = 49 * TopSimilarity.d

BestMatchIs75 ==
  /\ pc \notin { "idle", "search" }
  /\ Len(knowledgeResults) > 0
  /\ TopSimilarity.n * 16 = 9 * TopSimilarity.d

NoMatch ==
  /\ pc \notin { "idle", "search" }
  /\ Len(knowledgeResults) = 0

\* C2, as claimed: with a best match of similarity 0.75 the first prompt
\* sent to a backend is the adaptation prompt; with no match only
\* generation prompts are sent.
C2_FirstPrompt ==
  /\ (BestMatchIs75 /\ Len(sent) > 0) => sent[1].prompt.kind = "adaptation"
  /\ NoMatch => \A i \in 1..Len(sent) : sent[i].prompt.kind = "generation"

\* C2, amended: with a best match of similarity 0.75 and a key for the
\* user's default provider the first prompt sent to a backend is the
\* adaptation prompt; with no match only generation prompts are sent.
C2_FirstPromptWithDefaultKey ==
  /\ ( /\ BestMatchIs75
       /\ Len(sent) > 0
       /\ args.user.found
       /\ getUserApiKey(args.user, DefaultProvider(args.user)) )
       => sent[1].prompt.kind = "adaptation"
  /\ NoMatch => \A i \in 1..Len(sent) : sent[i].prompt.kind = "generation"

\* The adaptation prompt went out first for a best match of 0.75.
C2_Witness ==
  /\ BestMatchIs75
  /\ Len(sent) > 0
  /\ sent[1].prompt.kind = "adaptation"

\* The provider the Generate step is claimed to use: the default provider
\* when it has a key, else the first of the fallback order with a key.
FirstWithKey(user) ==
  LET I == { i \in 1..Len(fallbackOrder) : getUserApiKey(user, fallbackOrder[i]) }
  IN  fallbackOrder[CHOOSE i \in I : \A j \in I : i <= j]

ClaimedProvider(user) ==
  IF getUserApiKey(user, DefaultProvider(user)) THEN DefaultProvider(user)
  ELSE FirstWithKey(user)

\* C3, as claimed: the Generate step calls the user's default provider
\* whenever it has a key, and otherwise the first provider of the fallback
\* order with a key.
C3_DefaultProviderPreferred ==
  pc = "genCall" => sent[Len(sent)].provider = ClaimedProvider(args.user)

C5_AdaptFailureFallsBack ==
  AdaptCallFailed =>
    /\ Len(sent) = 2 =>
         /\ sent[2].prompt.kind = "generation"
         /\ sent[2].prompt.examples = <<>>
    /\ (pc = "done" /\ Len(sent) = 2 /\ outcome # "backend error") =>
         /\ outcome = "returned"
         /\ result.source = "generated"
         /\ result.files = parseCodeResponse(response, args.request.type)

\* The fallback ran after a failed adaptation call that had found matches.
C5_Witness ==
  /\ pc = "done"
  /\ AdaptCallFailed
  /\ Len(knowledgeResults) > 0
  /\ outcome = "returned"
  /\ result.source = "generated"

\* C6: when the adaptation call returns, updateCodeMetrics is called once,
\* for the matched entry and with true, and the result has source "adapted".
C6_AdaptSuccess ==
  (pc = "done" /\ AdaptCallSucceeded) =>
    /\ metricsCalls =
         << [entryId |-> knowledgeResults[1].entry._id, wasSuccessful |-> TRUE] >>
    /\ outcome = "returned"
    /\ result.source = "adapted"
    /\ result.originalEntry = knowledgeResults[1].entry._id

\* An adapted result whose metrics update reached the matched entry.
C6_Witness ==
  /\ pc = "done"
  /\ AdaptCallSucceeded
  /\ result.source = "adapted"
  /\ \E i \in 1..Len(kb) :
       kb[i]._id = result.originalEntry /\ kb[i].reusageCount = 1

\* The entry the Persist step is to store for a file of the result.
IsEntryOfFile(entry, file) ==
  /\ entry.codeType = args.request.type
  /\ entry.code = file.content
  /\ entry.description =
       << args.request.type, ":" >> \o file.path \o << "-" >> \o args.request.description

\* C7, as claimed: every call that returns a result, generated or adapted,
\* has stored one new entry per file of the result (no store having failed).
C7_EveryResultPersisted ==
  (pc = "done" /\ outcome = "returned" /\ storeFailed = <<>>) =>
    /\ Len(persisted) = Len(result.files)
    /\ \A i \in 1..Len(persisted) :
         /\ persisted[i] \in 1..Len(kb)
         /\ IsEntryOfFile(kb[persisted[i]], result.files[i])

\* C8: a failure to store a file does not turn the result into an error:
\* generateCode returns the result with all the files parsed from the
\* backend's answer.
C8_StoreFailureKeepsResult ==
  (pc = "done" /\ storeFailed # <<>>) =>
    /\ outcome = "returned"
    /\ result.source = "generated"
    /\ result.files = parseCodeResponse(response, args.request.type)

\* A result of two files returned although the second store failed.
C8_Witness ==
  /\ pc = "done"
  /\ outcome = "returned"
  /\ Len(result.files) = 2
  /\ Len(persisted) = 1
  /\ storeFailed # <<>>

\* C9, as claimed: when the store of one file fails, every other file of
\* the result is still stored.
C9_FailureSkipsOneFile ==
  (pc = "done" /\ outcome = "returned" /\ ~viaAdapt /\ result.source = "generated") =>
    \A i \in 1..Len(result.files) :
      \/ \E j \in 1..Len(storeFailed) : storeFailed[j] = result.files[i].path
      \/ \E j \in 1..Len(persisted) : IsEntryOfFile(kb[persisted[j]], result.files[i])

(***************************************************************************)
(* Properties of the knowledge base                                        *)
(***************************************************************************)

\* C10: a search returns at most 10 results, each of similarity >= 0.1, in
\* non-increasing order of similarity.
C10_SearchResults ==
  LET results == lastSearch.results
  IN  /\ Len(results) <= 10
      /\ \A i \in 1..Len(results) : SimAtLeast(results[i].similarity, 1, 10)
      /\ \A i, j \in 1..Len(results) :
           i < j => ~SimLess(results[i].similarity, results[j].similarity)

\* Ten results of two different similarities out of eleven stored entries,
\* one of them stored after a less similar one.
C10_Witness ==
  LET results == lastSearch.results
  IN  /\ Len(results) = 10
      /\ Len(kb) > 10
      /\ \E i \in 1..Len(results) :
           /\ SimLess(results[i].similarity, results[1].similarity)
           /\ \E j \in 1..Len(results) :
                /\ j < i
                /\ results[j].entry._id > results[i].entry._id

(***************************************************************************)
(* Properties of calculateSimilarity and generateEmbedding                 *)
(***************************************************************************)

\* Every component of the vector is 0.
AllZero(embedding) == \A i \in 1..Len(embedding.num) : embedding.num[i] = 0

\* C11: calculateSimilarity returns a value, and the value is the number 0
\* (not NaN), whenever one of the two vectors is all-zero or the two vectors
\* differ in length.
C11_ZeroOrMismatchGivesZero ==
  (fnCall.fn = "calculateSimilarity" /\ fnCall.returned) =>
    ( ( \/ AllZero(fnCall.embedding1)
        \/ AllZero(fnCall.embedding2)
        \/ Len(fnCall.embedding1.num) # Len(fnCall.embedding2.num) )
      => (fnCall.value.n = 0 /\ fnCall.value.d = 1) )

\* The value 0 returned for an all-zero vector against a vector of the same
\* length that is not all-zero.
C11_Witness ==
  /\ fnCall.fn = "calculateSimilarity"
  /\ fnCall.returned
  /\ Len(fnCall.embedding1.num) = MaxDim
  /\ Len(fnCall.embedding2.num) = MaxDim
  /\ AllZero(fnCall.embedding1)
  /\ ~AllZero(fnCall.embedding2)
  /\ fnCall.value.n = 0

\* The vocabulary terms as a set.
VocabularyTerms == { vocabulary[i] : i \in 1..Len(vocabulary) }

\* The term a token of a text counts for: the token in lower case when that
\* is a vocabulary term, "" otherwise.
TermOf(tok) ==
  IF tok \in VocabularyTerms THEN tok
  ELSE IF tok = "React" THEN "react"
  ELSE ""

\* The occurrences of a vocabulary term in a text.
Occurrences(text, term) ==
  Cardinality({ i \in 1..Len(text) : TermOf(text[i]) = term })

\* C12: the value of generateEmbedding is fixed by the text: it has one
\* component per vocabulary term (24); it is the all-zero vector, left
\* unscaled, exactly when no token of the text is a vocabulary term; in every
\* other case it is the vector of the terms' counts divided by that vector's
\* L2 norm.
C12_EmbeddingOfText ==
  (fnCall.fn = "generateEmbedding" /\ fnCall.returned) =>
    LET value  == fnCall.value
        counts == [i \in 1..24 |-> Occurrences(fnCall.text, vocabulary[i])]
        norm2  == SumSeq([i \in 1..24 |-> counts[i] * counts[i]])
    IN  /\ Len(value.num) = 24
        /\ Len(vocabulary) = 24
        /\ AllZero(value) <=> (\A i \in 1..Len(fnCall.text) : TermOf(fnCall.text[i]) = "")
        /\ AllZero(value) => value.den2 = 1
        /\ ~AllZero(value) => (value.num = counts /\ value.den2 = norm2)

\* The embedding of a text with one term twice, one of them capitalised,
\* and another term once: the counts 2 and 1 over sqrt(5).
C12_Witness ==
  /\ fnCall.fn = "generateEmbedding"
  /\ fnCall.returned
  /\ fnCall.text = << "React", "react", "form" >>
  /\ fnCall.value.num[1] = 2
  /\ fnCall.value.num[20] = 1
  /\ fnCall.value.den2 = 5

(***************************************************************************)
(* Properties of updateCodeMetrics                                         *)
(***************************************************************************)

\* 1 for a success, 0 for a failure.
FlagValue(wasSuccessful) == IF wasSuccessful THEN 1 ELSE 0

\* The ids of the documents of a collection.
IdsOf(db) == { db[i]._id : i \in 1..Len(db) }

\* The call of caller c has returned after writing the entry back.
SavedUpdate(c) == metricsOp[c].pc = "returned" /\ metricsOp[c].saved

\* C13: a call of updateCodeMetrics on an existing entry that is written
\* back adds exactly 1 to reusageCount and leaves successRate' equal to
\* (successRate * (reusageCount' - 1) + (wasSuccessful ? 1 : 0)) / reusageCount';
\* so after n such calls, one after the other, on an entry stored with
\* reusageCount 0, reusageCount is n.
C13_RunningAverage ==
  /\ \A c \in Callers :
       SavedUpdate(c) =>
         LET op     == metricsOp[c]
             old    == op.before[op.entryId]
             new    == kb[op.entryId]
         IN  /\ new.reusageCount = old.reusageCount + 1
             /\ new.successRate.n * (old.successRate.d * new.reusageCount)
                  = new.successRate.d
                      * (old.successRate.n * (new.reusageCount - 1)
                           + FlagValue(op.wasSuccessful) * old.successRate.d)
  /\ \A i \in 1..Len(kb) : kb[i].reusageCount = updates.saved[i]

\* A third call on an entry, a failure after two successes: 2/3.
C13_Witness ==
  \E c \in Callers :
    /\ SavedUpdate(c)
    /\ ~metricsOp[c].wasSuccessful
    /\ updates.saved[metricsOp[c].entryId] = 3
    /\ kb[metricsOp[c].entryId].reusageCount = 3
    /\ kb[metricsOp[c].entryId].successRate = [n |-> 2, d |-> 3]

\* C14: a call with wasSuccessful = true on an entry whose successRate is
\* below 1 leaves successRate no smaller than it was and no greater than 1;
\* so over calls made one after the other successRate never goes down and
\* never passes 1.
C14_SuccessNeverLowersRate ==
  \A c \in Callers :
    (SavedUpdate(c) /\ metricsOp[c].wasSuccessful) =>
      LET op  == metricsOp[c]
          old == op.before[op.entryId].successRate
          new == kb[op.entryId].successRate
      IN  old.n < old.d =>
            /\ new.n * old.d >= old.n * new.d
            /\ new.n <= new.d

\* A success that took successRate from 1/2 to 2/3.
C14_Witness ==
  \E c \in Callers :
    /\ SavedUpdate(c)
    /\ metricsOp[c].wasSuccessful
    /\ metricsOp[c].before[metricsOp[c].entryId].successRate = [n |-> 1, d |-> 2]
    /\ kb[metricsOp[c].entryId].successRate = [n |-> 2, d |-> 3]

\* C15: every entry of the collection has 0 <= successRate <= 1 and
\* reusageCount >= 0, whatever was stored and whatever flags the updates
\* had; an entry no update has been saved for has reusageCount 0 and
\* successRate 1.
C15_MetricsInRange ==
  \A i \in 1..Len(kb) :
    /\ kb[i].successRate.d > 0
    /\ kb[i].successRate.n >= 0
    /\ kb[i].successRate.n <= kb[i].successRate.d
    /\ kb[i].reusageCount >= 0
    /\ updates.saved[i] = 0 =>
         (kb[i].reusageCount = 0 /\ kb[i].successRate = [n |-> 1, d |-> 1])

\* An entry at 1/3 after a success and two failures, beside an entry that
\* was stored and never updated.
C15_Witness ==
  /\ Len(kb) = 2
  /\ kb[1].reusageCount = 3
  /\ kb[1].successRate = [n |-> 1, d |-> 3]
  /\ kb[2].reusageCount = 0
  /\ kb[2].successRate = [n |-> 1, d |-> 1]

\* C16: a call of updateCodeMetrics with an id that no entry has returns to
\* its caller with the collection as it was when the call began: no entry
\* added, none changed.
C16_UnknownIdIsNoOp ==
  \A c \in Callers :
    (metricsOp[c].pc \in { "save", "returned" }
       /\ metricsOp[c].entryId \notin IdsOf(metricsOp[c].before)) =>
      /\ metricsOp[c].pc = "returned"
      /\ ~metricsOp[c].found
      /\ ~metricsOp[c].saved
      /\ kb = metricsOp[c].before

\* A call with an unknown id that returned while the collection held an
\* entry with metrics of its own.
C16_Witness ==
  \E c \in Callers :
    /\ metricsOp[c].pc = "returned"
    /\ Len(kb) >= 1
    /\ metricsOp[c].entryId \notin IdsOf(kb)
    /\ kb[1].reusageCount = 1
    /\ kb = metricsOp[c].before

(***************************************************************************)
(* Properties of parseCodeResponse                                         *)
(***************************************************************************)

\* parseCodeResponse has returned the files of an answer.
Parsed == fnCall.fn = "parseCodeResponse" /\ fnCall.returned

\* The first comment of the code is "// File: <path>".
CarriesFileComment(body, path) ==
  \E i \in 1..(Len(body) - 2) :
    /\ body[i] = "//"
    /\ body[i + 1] = "File:"
    /\ body[i + 2] = path
    /\ \A j \in 1..(i - 1) : body[j] # "//"

\* The code has no comment.
NoComment(body) == \A i \in 1..Len(body) : body[i] # "//"

\* The language of a block: its tag, 'javascript' without one.
LanguageOf(piece) == IF piece.tag # "" THEN piece.tag ELSE "javascript"

\* Scenario D: an answer of two fenced blocks, the first with the comment
\* "// File: src/Foo.jsx", the second without a comment.
ScenarioD ==
  /\ Len(fnCall.parts) = 2
  /\ fnCall.parts[1].kind = "block"
  /\ fnCall.parts[2].kind = "block"
  /\ CarriesFileComment(fnCall.parts[1].body, "src/Foo.jsx")
  /\ NoComment(fnCall.parts[2].body)

LeadingFileComment(body) ==
  /\ Len(body) >= 3
  /\ body[1] = "//"
  /\ body[2] \in { "File:", "Path:" }

\* C18, as claimed: in an answer made of fenced blocks, every block without
\* a leading "// File:" or "// Path:" comment line, whatever other comments
\* it has, becomes the file at the default path for the request type, the
\* block's language and the block's index.
C18_PathOnlyFromFileComment ==
  (Parsed /\ \A i \in 1..Len(fnCall.parts) : fnCall.parts[i].kind = "block") =>
    \A i \in 1..Len(fnCall.parts) :
      ~LeadingFileComment(fnCall.parts[i].body) =>
        \E j \in 1..Len(fnCall.value) :
          /\ fnCall.value[j].content = fnCall.parts[i].body
          /\ fnCall.value[j].path =
               << generateDefaultFilePath(fnCall.type, LanguageOf(fnCall.parts[i]), i - 1) >>

\* The fences of a text.
FenceCount(content) == Cardinality({ i \in 1..Len(content) : content[i] = "FENCE" })

\* C19: an answer without a complete fenced block (no fence, or one fence
\* that is never closed) parses into exactly one file, whose content is the
\* whole answer and whose path is the default path for the request type at
\* index 0.
C19_NoBlockSingleFile ==
  (Parsed /\ FenceCount(fnCall.content) < 2) =>
    LET files == fnCall.value
    IN  /\ Len(files) = 1
        /\ files[1].content = fnCall.content
        /\ files[1].path = << generateDefaultFilePath(fnCall.type, "javascript", 0) >>
        /\ fnCall.type = "component" =>
             files[1].path = << "src/components/Component0.jsx" >>
        /\ fnCall.type = "full-project" => files[1].path = << "src/App.jsx" >>
        /\ fnCall.type = "service" => files[1].path = << "src/services/service0.js" >>
        /\ fnCall.type = "page" => files[1].path = << "src/file0.js" >>

\* Text followed by a block that is never closed, parsed into one file
\* holding all of it.
C19_Witness ==
  /\ Parsed
  /\ Len(fnCall.parts) = 2
  /\ fnCall.parts[1].kind = "text"
  /\ fnCall.parts[2].kind = "open"
  /\ FenceCount(fnCall.content) = 1
  /\ Len(fnCall.value) = 1
  /\ fnCall.value[1].content = fnCall.content

(***************************************************************************)
(* Properties of a store followed by a search                              *)
(***************************************************************************)

\* The filters that name the entry's own userId, codeType, stack and category.
FiltersOf(entry) ==
  [ userId   |-> entry.userId,
    codeType |-> entry.codeType,
    stack    |-> entry.metadata.stack,
    category |-> entry.metadata.category ]

\* Scenario A: the collection holds one entry, with the description "react
\* button component" and code with the word "button", and a search with the
\* query "button component" and the entry's own filters has been answered
\* by the database.
ScenarioA ==
  /\ Len(kb) = 1
  /\ kb[1].description = << "react", "button", "component" >>
  /\ \E i \in 1..Len(kb[1].code) : kb[1].code[i] = "button"
  /\ lastSearch.called
  /\ lastSearch.dbOk
  /\ lastSearch.query = << "button", "component" >>
  /\ lastSearch.filters = FiltersOf(kb[1])

Attempted == { sent[i].provider : i \in 1..Len(sent) }

\* The providers of the fallback order the user holds a key for.
Credentialed(user) ==
  { fallbackOrder[i] : i \in { j \in 1..Len(fallbackOrder) :
                                 getUserApiKey(user, fallbackOrder[j]) } }

\* C21: when the backend call of the Generate step fails and generateCode
\* throws the failure, every provider of the fallback order the user holds a
\* key for has been attempted.
C21_FailureAfterAllProvidersTried ==
  (pc = "done" /\ outcome = "backend error")
    => Credentialed(args.user) \subseteq Attempted

\* The calls of one type among the backend calls of the current call.
CallsOfType(type) == { i \in 1..Len(sent) : sent[i].type = type }

\* C22: one generateCode call makes at most two backend calls, at most one
\* adaptation call and at most one generation call, and a second call is the
\* generation call made from the catch of the adaptation call.
C22_AtMostTwoBackendCalls ==
  /\ Len(sent) <= 2
  /\ Cardinality(CallsOfType("code_adaptation")) <= 1
  /\ Cardinality(CallsOfType("code_generation")) <= 1
  /\ Len(sent) = 2 => /\ sent[1].type = "code_adaptation"
                      /\ sent[2].type = "code_generation"
                      /\ viaAdapt

\* C22 witness: a call that made two backend calls and returned.
C22_Witness ==
  /\ pc = "done"
  /\ Len(sent) = 2
  /\ outcome = "returned"

(***************************************************************************)
(* Metrics updates of one generateCode call                                *)
(***************************************************************************)

\* The entries of the collection whose metrics a step changes.
MetricsChanged ==
  { i \in 1..Len(kb) : \/ kb'[i].reusageCount # kb[i].reusageCount
                        \/ kb'[i].successRate # kb[i].successRate }

\* C25, the calls: a generateCode call makes at most one call of
\* updateCodeMetrics, for the top-ranked search result; a call that returned
\* made it exactly when its result is adapted, a call that threw made none.
C25_MetricsCalls ==
  /\ Len(metricsCalls) <= 1
  /\ \A i \in 1..Len(metricsCalls) :
       /\ Len(knowledgeResults) > 0
       /\ metricsCalls[i].entryId = knowledgeResults[1].entry._id
  /\ pc = "done" =>
       (Len(metricsCalls) = 1 <=> (outcome = "returned" /\ result.source = "adapted"))

\* C25, the entries: a step of generateCode changes the metrics of an entry
\* only as the step that returns an adapted result, and then of the
\* top-ranked entry alone.
C25_MetricsStep ==
  MetricsChanged # {} =>
    /\ pc = "adaptMetrics"
    /\ result'.source = "adapted"
    /\ MetricsChanged = { knowledgeResults[1].entry._id }

\* C25: within one generateCode call updateCodeMetrics is called at most
\* once, on the top-ranked entry, if and only if the result is adapted;
\* generated and failed calls change the metrics of no entry.
C25_MetricsOnlyWhenAdapted == []C25_MetricsCalls /\ [][C25_MetricsStep]_vars

\* C25 witness: a call whose search returned two results returned the
\* adapted result and counted one reuse of the top-ranked entry.
C25_Witness ==
  /\ pc = "done"
  /\ result.source = "adapted"
  /\ Len(knowledgeResults) = 2
  /\ Len(metricsCalls) = 1
  /\ kb[knowledgeResults[1].entry._id].reusageCount = 1
  /\ kb[knowledgeResults[2].entry._id].reusageCount = 0

(***************************************************************************)
(* Persist and Search                                                      *)
(***************************************************************************)

\* C26: every entry a generateCode call stored satisfies the filters the
\* Search step of a generateCode call with the same user, project and
\* request builds.
C26_PersistedMatchesLaterSearch ==
  \A i \in 1..Len(persisted) :
    MatchesCriteria(kb[persisted[i]],
                    SearchFilters(args.userId, args.request, args.projectData))

(***************************************************************************)
(* Blocks and files of parseCodeResponse                                   *)
(***************************************************************************)

\* The answer is made of complete fenced blocks alone.
AllBlocks(parts) == \A i \in 1..Len(parts) : parts[i].kind = "block"

\* C28: an answer of k complete fenced blocks parses into exactly k files,
\* no two of them under the same path.
C28_OneFilePerBlock ==
  (Parsed /\ AllBlocks(fnCall.parts)) =>
    /\ Len(fnCall.value) = Len(fnCall.parts)
    /\ \A i, j \in 1..Len(fnCall.value) :
         fnCall.value[i].path = fnCall.value[j].path => i = j

(***************************************************************************)
(* Two calls of updateCodeMetrics on one entry                             *)
(***************************************************************************)

\* Both callers have returned from updateCodeMetrics for the same entry:
\* both loaded the same document, before either saved, and both saved.
BothSavedFromOneRead ==
  /\ \A c \in Callers : /\ metricsOp[c].pc = "returned"
                        /\ metricsOp[c].saved
  /\ metricsOp["c1"].entryId = metricsOp["c2"].entryId
  /\ metricsOp["c1"].loaded = metricsOp["c2"].loaded

\* C23: when two calls of updateCodeMetrics on one entry both load the
\* entry before either saves, one update is lost: reusageCount is one more
\* than the count both loaded, not two, and successRate is the rate one of
\* the two callers computed from its own outcome alone.
C23_LostUpdate ==
  BothSavedFromOneRead =>
    LET loaded == metricsOp["c1"].loaded
        stored == kb[findById(kb, metricsOp["c1"].entryId)]
    IN  /\ stored.reusageCount = loaded.reusageCount + 1
        /\ \E c \in Callers :
             stored.successRate =
               UpdatedMetrics(loaded, metricsOp[c].wasSuccessful).successRate

\* C23 witness: a success and a failure recorded at once on an entry used
\* once before; two saves, and a count of two where three uses happened.
C23_Witness ==
  /\ BothSavedFromOneRead
  /\ metricsOp["c1"].wasSuccessful # metricsOp["c2"].wasSuccessful
  /\ metricsOp["c1"].loaded.reusageCount = 1
  /\ kb[findById(kb, metricsOp["c1"].entryId)].reusageCount = 2
  /\ updates.saved[metricsOp["c1"].entryId] = 3

(***************************************************************************)
(* The entries a search ranks                                              *)
(***************************************************************************)

\* The ids of the entries that match the filters of the last search, and
\* those of them with fewer than ScanLimit matching entries stored before.
MatchingIds ==
  { i \in 1..Len(kb) : MatchesCriteria(kb[i], lastSearch.filters) }

ScannedIds ==
  { i \in MatchingIds : Cardinality({ j \in MatchingIds : j < i }) < ScanLimit }

\* The similarity of a stored entry to the query of the last search.
SimilarityOf(i) ==
  calculateSimilarity(generateEmbedding(lastSearch.query), kb[i].embedding)

\* The scanned entries above the threshold.
Candidates == { i \in ScannedIds : SimGreater(SimilarityOf(i), 1, 10) }

\* C27: a search that the database answered returns entries among the first
\* ScanLimit that match the filters, in store order; it returns as many of
\* those above the threshold as there are, up to TopResults, each once, and
\* none of those it leaves out is more similar than one it returns.  An
\* entry stored after ScanLimit matching entries is never returned.
C27_RanksFirstFifty ==
  (lastSearch.called /\ lastSearch.dbOk) =>
    LET results  == lastSearch.results
        returned == { results[k].entry._id : k \in 1..Len(results) }
    IN  /\ returned \subseteq Candidates
        /\ Len(results) = Min(TopResults, Cardinality(Candidates))
        /\ Cardinality(returned) = Len(results)
        /\ \A k \in 1..Len(results) :
             results[k].similarity = SimilarityOf(results[k].entry._id)
        /\ \A i \in Candidates \ returned : \A k \in 1..Len(results) :
             ~SimLess(results[k].similarity, SimilarityOf(i))
        /\ \A i \in MatchingIds \ ScannedIds : i \notin returned

\* C27 witness: the entry the query describes word for word matches the
\* filters, is stored after ScanLimit matching entries and is not among the
\* ten results, every one of which is less similar than it.
C27_Witness ==
  /\ lastSearch.called
  /\ lastSearch.dbOk
  /\ Len(lastSearch.results) = TopResults
  /\ \E i \in MatchingIds \ ScannedIds :
       /\ SimAtLeast(SimilarityOf(i), 1, 1)
       /\ \A k \in 1..Len(lastSearch.results) :
            /\ lastSearch.results[k].entry._id # i
            /\ SimLess(lastSearch.results[k].similarity, SimilarityOf(i))

(***************************************************************************)
(* The life of a stored entry                                              *)
(***************************************************************************)

\* The fields of an entry other than reusageCount and successRate.
StoredFields(entry) ==
  << entry._id, entry.projectId, entry.userId, entry.codeType, entry.description,
     entry.code, entry.metadata, entry.embedding >>

\* The step is the save of updateCodeMetrics, called directly or by
\* adaptExistingCode.
MetricsWrite ==
  \/ pc = "adaptMetrics"
  \/ \E c \in Callers : metricsOp[c].pc = "save" /\ metricsOp'[c].saved

\* C24, one step: no entry leaves the collection; every stored entry keeps
\* its id, projectId, userId, codeType, description, code, metadata and
\* embedding; an entry changes only in a save of updateCodeMetrics.
C24_Step ==
  /\ Len(kb') >= Len(kb)
  /\ \A i \in 1..Len(kb) :
       /\ StoredFields(kb'[i]) = StoredFields(kb[i])
       /\ kb'[i] # kb[i] => MetricsWrite

\* C24, the embedding: it is the embedding of description + code computed
\* when the entry was stored.
C24_EmbeddingAsStored ==
  \A i \in 1..Len(kb) :
    /\ kb[i]._id = i
    /\ kb[i].embedding = generateEmbedding(kb[i].description \o kb[i].code)

\* C24: a stored entry is never deleted and is changed only by
\* updateCodeMetrics, in reusageCount and successRate; every other field is
\* left as stored by every search, metrics update, statistics call and
\* generateCode call.
C24_EntryFrame == []C24_EmbeddingAsStored /\ [][C24_Step]_vars

\* C24 witness: an entry stored by generateCode has been reused by a later
\* generateCode call and had a failure recorded by a direct call of
\* updateCodeMetrics, while statistics of its user were taken.
C24_Witness ==
  /\ Len(kb) >= 1
  /\ kb[1].reusageCount = 2
  /\ kb[1].successRate = [n |-> 1, d |-> 2]
  /\ ncalls = 2
  /\ fnCall.fn = "getKnowledgeStats"
  /\ fnCall.returned
  /\ fnCall.totalEntries = Len(kb)

(***************************************************************************)
(* The life of a terminal                                                  *)
(***************************************************************************)

\* C29, one step: nothing is written to the stdin of a terminal that was
\* killed or whose process has closed, and no command is recorded for it.
C29_Step ==
  \A t \in Ended(terminals) :
    /\ terminals'[t].stdin = terminals[t].stdin
    /\ terminals'[t].commands = terminals[t].commands

\* C29, the calls: executeCommand called for a terminal that was killed or
\* had closed threw 'Terminal not found or not active'; getProjectTerminals
\* listed no terminal that was killed or had closed.
C29_Calls ==
  /\ (lastOp.op = "executeCommand" /\ lastOp.terminalId \in lastOp.ended)
       => /\ lastOp.error = "Terminal not found or not active"
          /\ ~lastOp.performed
  /\ lastOp.op = "getProjectTerminals" => lastOp.listed \cap lastOp.ended = {}

\* C29: after any sequence of createTerminal, executeCommand, killTerminal,
\* 'close' events and cleanup, executeCommand never writes to the stdin of a
\* terminal that was killed or whose process has closed (it throws and
\* records no command), and getProjectTerminals never lists such a terminal.
C29_EndedTerminalIsLeftAlone == []C29_Calls /\ [][C29_Step]_vars

\* C29 witness: a terminal that was sent a command closed on its own and is
\* still in the map; executeCommand was called for it and threw.
C29_Witness ==
  /\ lastOp.op = "executeCommand"
  /\ lastOp.error = "Terminal not found or not active"
  /\ LET session == terminals[lastOp.terminalId]
     IN  /\ session.inMap
         /\ session.closed
         /\ ~session.killed
         /\ Len(session.stdin) = 1
         /\ Len(session.commands) = 1

(***************************************************************************)
(* Connections that have not authenticated                                 *)
(***************************************************************************)

\* C30: a handler performs no terminal action and starts no code generation
\* for a connection that has not sent 'authenticate' with a userId and a
\* projectId, and such a connection is sent nothing but 'error'.
C30_UnauthenticatedDoesNothing ==
  /\ (lastOp.socket \in SocketIds /\ ~lastOp.sentAuth) => ~lastOp.performed
  /\ \A s \in SocketIds :
       (connections[s].connected /\ ~connections[s].sentAuth)
         => connections[s].events \subseteq { "error" }

====
